---- MODULE Spec2Model ----
(***************************************************************************)
(* State-machine model of the four stage screens of quazzar_tasks-frontend *)
(* (Pintura, Premontaje, Chasis, Montaje): catalog load, pending-snapshot  *)
(* buffering and draining, identifier validation, finalize and             *)
(* leave-with-save flows.                                                  *)
(*                                                                         *)
(* Strings are sequences of UTF-16 code units (natural numbers), so that   *)
(* the string functions of the source are computed, not assumed.  null,    *)
(* undefined and '' are all the empty sequence where the source treats     *)
(* them alike (every use is of the form `x || ...`, `!x` or `(x||'')`).    *)
(* A numeric id that is null/undefined/0 is 0 (every use is `!id`,         *)
(* `id ?? null` followed by a truthiness test, or `if (id)`).              *)
(***************************************************************************)
EXTENDS Integers, Sequences, FiniteSets, Bags, TLC

(***************************************************************************)
(* String primitives                                                       *)
(***************************************************************************)

\* String.prototype.toLowerCase / toUpperCase on one code unit (ASCII and Latin-1)
Lower(c) == IF c \in 65..90 \/ (c \in 192..222 /\ c # 215) THEN c + 32 ELSE c
Upper(c) == IF c \in 97..122 \/ (c \in 224..254 /\ c # 247) THEN c - 32 ELSE c

toLowerCase(s) == [i \in 1..Len(s) |-> Lower(s[i])]
toUpperCase(s) == [i \in 1..Len(s) |-> Upper(s[i])]

\* canonical decomposition of one code unit (the accented letters of Spanish)
Decomp(c) ==
  CASE c = 193 -> <<65, 769>>  [] c = 201 -> <<69, 769>>  [] c = 205 -> <<73, 769>>
    [] c = 211 -> <<79, 769>>  [] c = 218 -> <<85, 769>>  [] c = 220 -> <<85, 776>>
    [] c = 209 -> <<78, 771>>
    [] c = 225 -> <<97, 769>>  [] c = 233 -> <<101, 769>> [] c = 237 -> <<105, 769>>
    [] c = 243 -> <<111, 769>> [] c = 250 -> <<117, 769>> [] c = 252 -> <<117, 776>>
    [] c = 241 -> <<110, 771>>
    [] OTHER -> <<c>>

\* label.normalize('NFD')
RECURSIVE normalizeNFD(_)
normalizeNFD(s) ==
  IF s = <<>> THEN <<>> ELSE Decomp(Head(s)) \o normalizeNFD(Tail(s))

\* [̀-ͯ]
IsCombiningMark(c) == c \in 768..879
\* [a-z0-9]
IsColChar(c) == c \in 97..122 \/ c \in 48..57
\* \d
IsDigit(c) == c \in 48..57
\* \s (the white space of the bounded alphabet)
IsSpace(c) == c \in {9, 10, 11, 12, 13, 32, 160}
\* \w
IsWordChar(c) == c \in 97..122 \/ c \in 65..90 \/ c \in 48..57 \/ c = 95
\* [0-9A-F] under the i flag
IsHexDigit(c) == c \in 48..57 \/ c \in 65..70 \/ c \in 97..102

RECURSIVE DropWhileNotCol(_)
DropWhileNotCol(s) ==
  IF s = <<>> \/ IsColChar(Head(s)) THEN s ELSE DropWhileNotCol(Tail(s))

\* s.replace(/[^a-z0-9]+/g, '_')
RECURSIVE replaceNonAlnumRuns(_)
replaceNonAlnumRuns(s) ==
  IF s = <<>> THEN <<>>
  ELSE IF IsColChar(Head(s)) THEN <<Head(s)>> \o replaceNonAlnumRuns(Tail(s))
  ELSE <<95>> \o replaceNonAlnumRuns(DropWhileNotCol(Tail(s)))

\* the index of the first (last) code unit of s outside the set C; 0 when there is none
FirstOutside(s, C) ==
  LET I == {i \in 1..Len(s) : s[i] \notin C}
  IN  IF I = {} THEN 0 ELSE CHOOSE i \in I : \A j \in I : i <= j
LastOutside(s, C) ==
  LET I == {i \in 1..Len(s) : s[i] \notin C}
  IN  IF I = {} THEN 0 ELSE CHOOSE i \in I : \A j \in I : i >= j

\* s with its leading and trailing code units of C removed
StripBoth(s, C) ==
  IF FirstOutside(s, C) = 0 THEN <<>>
  ELSE SubSeq(s, FirstOutside(s, C), LastOutside(s, C))

\* s.replace(/^_+|_+$/g, '')
trimUnderscores(s) == StripBoth(s, {95})

\* String.prototype.trim
trim(s) == StripBoth(s, {9, 10, 11, 12, 13, 32, 160})

\* a faulty variant of labelToCol: the leading and trailing underscores are kept
labelToColMissingTrim(label) ==
  IF label = <<>> THEN <<>>
  ELSE replaceNonAlnumRuns(toLowerCase(
         SelectSeq(normalizeNFD(label), LAMBDA c : ~IsCombiningMark(c))))

\* labelToCol of the four stage screens (the four copies are the same text)
labelToCol(label) ==
  IF label = <<>> THEN <<>>
  ELSE trimUnderscores(replaceNonAlnumRuns(toLowerCase(
         SelectSeq(normalizeNFD(label), LAMBDA c : ~IsCombiningMark(c)))))

(***************************************************************************)
(* Catalog load: filter, group by section, order                           *)
(***************************************************************************)

\* getCatalogo's client-side filter followed by the screens' own
\* rows.filter(r => r.activa !== false)
\* a faulty variant of activos: no row is left out
activosKeepsAll(rows) == rows

activos(rows) == SelectSeq(rows, LAMBDA r : r.activa)

\* the Map<string, Task[]> built by the loop over activos, in insertion order;
\* def is the stage's default section name
RECURSIVE groupBySection(_, _, _)
groupBySection(rows, def, acc) ==
  IF rows = <<>> THEN acc
  ELSE LET r   == Head(rows)
           sec == IF trim(r.seccion) = <<>> THEN def ELSE trim(r.seccion)
           at  == {i \in 1..Len(acc) : acc[i].name = sec}
           t   == [label |-> r.label, done |-> FALSE]
       IN  groupBySection(Tail(rows), def,
             IF at = {} THEN Append(acc, [name |-> sec, tasks |-> <<t>>])
             ELSE [acc EXCEPT ![CHOOSE i \in at : TRUE].tasks = Append(@, t)])

\* the index after the longest run of code units of C that starts at i
RECURSIVE SkipRun(_, _, _)
SkipRun(s, i, C) == IF i <= Len(s) /\ s[i] \in C THEN SkipRun(s, i + 1, C) ELSE i

\* parseInt(digits, 10)
RECURSIVE parseInt(_)
parseInt(d) == IF d = <<>> THEN 0 ELSE 10 * parseInt(SubSeq(d, 1, Len(d) - 1)) + (d[Len(d)] - 48)

\* the positions at which /fase\s*(\d+)/i matches
FaseMatches(name) ==
  {i \in 1..Len(name) :
     /\ i + 3 <= Len(name)
     /\ <<Lower(name[i]), Lower(name[i + 1]), Lower(name[i + 2]), Lower(name[i + 3])>>
          = <<102, 97, 115, 101>>
     /\ LET d == SkipRun(name, i + 4, {9, 10, 11, 12, 13, 32, 160})
        IN  d <= Len(name) /\ IsDigit(name[d])}

\* faseNum: the number of the leftmost match; inf is Number.POSITIVE_INFINITY
faseNum(name) ==
  IF FaseMatches(name) = {} THEN [inf |-> TRUE, n |-> 0]
  ELSE LET i == CHOOSE k \in FaseMatches(name) : \A j \in FaseMatches(name) : k <= j
           d == SkipRun(name, i + 4, {9, 10, 11, 12, 13, 32, 160})
           e == SkipRun(name, d, 48..57)
       IN  [inf |-> FALSE, n |-> parseInt(SubSeq(name, d, e - 1))]

\* primary collation weight of a code unit under locale 'es', sensitivity 'base':
\* case and accents are ignored, n-tilde is a letter of its own between n and o,
\* white space < punctuation < digits < letters
CollationWeight(c) ==
  LET b == Lower(Head(Decomp(c)))
  IN  IF Lower(c) = 241 THEN 100 + 2 * (110 - 97) + 1
      ELSE IF b \in 97..122 THEN 100 + 2 * (b - 97)
      ELSE IF IsDigit(c) THEN 50 + (c - 48)
      ELSE IF IsSpace(c) THEN 1
      ELSE IF c = 95 THEN 2
      ELSE IF c = 45 THEN 3
      ELSE 4

CollationKey(s) ==
  LET t == SelectSeq(s, LAMBDA c : ~IsCombiningMark(c))
  IN  [i \in 1..Len(t) |-> CollationWeight(t[i])]

\* lexicographic comparison of two weight sequences: -1, 0 or 1
RECURSIVE SeqCompare(_, _)
SeqCompare(a, b) ==
  IF a = <<>> /\ b = <<>> THEN 0
  ELSE IF a = <<>> THEN -1
  ELSE IF b = <<>> THEN 1
  ELSE IF Head(a) < Head(b) THEN -1
  ELSE IF Head(a) > Head(b) THEN 1
  ELSE SeqCompare(Tail(a), Tail(b))

\* a.localeCompare(b, 'es', { sensitivity: 'base' })
localeCompare(a, b) == SeqCompare(CollationKey(a), CollationKey(b))

\* a faulty variant of sectionCompare: the phase number is not looked at
sectionCompareNoFase(a, b) == localeCompare(a.name, b.name)

\* the comparator handed to sort: negative, zero or positive
sectionCompare(a, b) ==
  LET fa == faseNum(a.name)
      fb == faseNum(b.name)
  IN  IF fa # fb
      THEN IF fa.inf THEN 1 ELSE IF fb.inf THEN -1 ELSE fa.n - fb.n
      ELSE localeCompare(a.name, b.name)

\* Array.prototype.sort is stable: x goes after every element that does not
\* compare greater than it
RECURSIVE InsertSorted(_, _)
InsertSorted(sorted, x) ==
  IF sorted = <<>> THEN <<x>>
  ELSE IF sectionCompare(Head(sorted), x) > 0 THEN <<x>> \o sorted
  ELSE <<Head(sorted)>> \o InsertSorted(Tail(sorted), x)

RECURSIVE sortSections(_)
sortSections(secs) ==
  IF secs = <<>> THEN <<>>
  ELSE InsertSorted(sortSections(SubSeq(secs, 1, Len(secs) - 1)), secs[Len(secs)])

\* the value handed to sections.set by cargarTareasDesdeBD
loadSections(rows, def) == sortSections(groupBySection(activos(rows), def, <<>>))

\* Chasis: activos.map(r => ({ label: r.label, done: false }))
loadTasks(rows) == [i \in 1..Len(activos(rows)) |-> [label |-> activos(rows)[i].label, done |-> FALSE]]

(***************************************************************************)
(* Bounds and the finite universes the inputs are drawn from               *)
(***************************************************************************)

\* start/update/finalize requests of finalize flows a screen may have outstanding
MaxOutstanding == 2
\* the same in Chasis, whose states are many more
MaxOutstandingChasis == 1
\* save requests of leave-and-save a screen may have outstanding
MaxSaves == 1
\* status queries of an identifier that are outstanding at a time
MaxChecks == 2
\* the same in Montaje, where a status query is followed by two lookups
MaxChecksMontaje == 1
\* a finalize flow is started only while the daily counter is below this
MaxDailyCount == 1

\* labels of catalog rows: "Motor-1", "Árbol", "Pulir"
LabelMotor == <<77, 111, 116, 111, 114, 45, 49>>
LabelArbol == <<193, 114, 98, 111, 108>>
LabelPulir == <<80, 117, 108, 105, 114>>

\* section fields of catalog rows: "Fase 2", "  ", "Varios"
SecFase2  == <<70, 97, 115, 101, 32, 50>>
SecBlank  == <<32, 32>>
SecVarios == <<86, 97, 114, 105, 111, 115>>

Row(l, s, a) == [label |-> l, seccion |-> s, activa |-> a]

\* responses of GET /tareas: a catalog of two active rows (one in "Fase 2", one with
\* a blank section) and an inactive row, and a catalog with no active row
CatPhases == <<Row(LabelMotor, SecFase2, TRUE), Row(LabelArbol, SecBlank, TRUE),
               Row(LabelPulir, SecVarios, FALSE)>>
CatNone   == <<Row(LabelPulir, SecVarios, FALSE)>>
Catalogs  == {CatPhases, CatNone}

\* checks mappings a pending record may carry (keys are column names):
\* everything done; motor_1 done and arbol explicitly not; arbol done, motor_1
\* missing and a key that is a raw label
ChecksAll     == [k \in {labelToCol(LabelMotor), labelToCol(LabelArbol)} |-> TRUE]
ChecksPartial == [k \in {labelToCol(LabelMotor), labelToCol(LabelArbol)} |->
                    k = labelToCol(LabelMotor)]
ChecksSparse  == [k \in {labelToCol(LabelArbol), LabelMotor} |-> TRUE]
ChecksMaps    == {ChecksAll, ChecksPartial, ChecksSparse}

\* colors: "rojo", " rojo " and RAL "3020"
Rojo       == <<114, 111, 106, 111>>
RojoSpaced == <<32, 114, 111, 106, 111, 32>>
Ral3020    == <<51, 48, 50, 48>>

\* the id_area of a response to iniciarTarea; 0 stands for a response without one
NewIds     == {0, 3}
\* the id of the pending record that the backend holds for the open stage
RecordIds  == {1}
UserIds    == {0, 7}

\* an element of the response of GET /pendientes/{userId}
PendingItem(area, id, color, ral, vin) ==
  [area_key |-> area, id |-> id, color |-> color, RAL |-> ral, bastidor |-> vin]

\* the first element p of items with area_key = area, as items.find gives it;
\* id 0 when there is none
FindArea(items, area) ==
  LET I == {i \in 1..Len(items) : items[i].area_key = area}
  IN  IF I = {} THEN PendingItem(area, 0, <<>>, <<>>, <<>>)
      ELSE items[CHOOSE i \in I : \A j \in I : i <= j]

(***************************************************************************)
(* State                                                                   *)
(***************************************************************************)

VARIABLES
  screen,          \* the stage screen that is open: its component is the live one
  sessionStorage,  \* [token, userId]: the token's presence and qp_user.id (0: none)
  localStorage,    \* [count, CHASIS_VIN, SNAPSHOT_CHASIS]
  route,           \* "stage" while the screen is open, then "/home" or "login"
  net,             \* bag of HTTP requests whose response has not been delivered
  timers,          \* bag of setTimeout callbacks that have not fired (Chasis)
  pintura,         \* fields of PinturaTareasComponent
  premontaje,      \* fields of PremontajeTareasComponent
  chasis,          \* fields of ChasisTareasComponent
  montaje          \* fields of MontajeTareasComponent

vars == <<screen, sessionStorage, localStorage, route, net, timers,
          pintura, premontaje, chasis, montaje>>

\* a request: op is the TareasService method, cb names the subscriber (the closure
\* that will handle the response), the other fields are the arguments sent and the
\* values the closure captured
Req(op, cb) ==
  [op |-> op, cb |-> cb, id |-> 0, userId |-> 0, bastidor |-> <<>>, color |-> <<>>,
   RAL |-> <<>>, checks |-> <<>>, patch |-> <<>>, vins |-> <<>>]

Send(bag, m)    == bag (+) SetToBag({m})
Consume(bag, m) == bag (-) SetToBag({m})
InFlight(m)     == m \in BagToSet(net)

\* the requests of finalize flows, and of leave-and-save, that are outstanding
FlowOps == {"iniciarTarea", "actualizarTarea", "finalizarTarea"}
CountWhere(F) == BagCardinality([m \in F |-> net[m]])
Outstanding      == CountWhere({m \in BagToSet(net) : m.op \in FlowOps /\ m.cb # "leave"})
OutstandingSaves == CountWhere({m \in BagToSet(net) : m.cb = "leave"})

\* _pendingSnapshot = null
NoSnapshot == [some |-> FALSE, color |-> <<>>, RAL |-> <<>>, checks |-> <<>>, id |-> 0]

\* !!ck[col]
Truthy(ck, col) == col \in DOMAIN ck /\ ck[col]

\* a faulty variant of applyChecks: the checks are looked up by the raw label
applyChecksByLabel(secs, ck) ==
  [i \in 1..Len(secs) |->
     [name  |-> secs[i].name,
      tasks |-> [j \in 1..Len(secs[i].tasks) |->
                   [label |-> secs[i].tasks[j].label,
                    done  |-> Truthy(ck, secs[i].tasks[j].label)]]]]

\* for (sec of arr) for (t of sec.tasks) t.done = !!ck[labelToCol(t.label)]
applyChecks(secs, ck) ==
  [i \in 1..Len(secs) |->
     [name  |-> secs[i].name,
      tasks |-> [j \in 1..Len(secs[i].tasks) |->
                   [label |-> secs[i].tasks[j].label,
                    done  |-> Truthy(ck, labelToCol(secs[i].tasks[j].label))]]]]

\* every task of every section with done = false
uncheckAll(secs) ==
  [i \in 1..Len(secs) |->
     [name  |-> secs[i].name,
      tasks |-> [j \in 1..Len(secs[i].tasks) |->
                   [label |-> secs[i].tasks[j].label, done |-> FALSE]]]]

\* sections().flatMap(sec => sec.tasks)
RECURSIVE allTasks(_)
allTasks(secs) == IF secs = <<>> THEN <<>> ELSE Head(secs).tasks \o allTasks(Tail(secs))

\* the index of the last task of ts with this label / this column name (a later
\* assignment to the same property wins)
LastWithLabel(ts, l) ==
  CHOOSE i \in 1..Len(ts) :
    ts[i].label = l /\ \A j \in 1..Len(ts) : ts[j].label = l => j <= i
LastWithCol(ts, c) ==
  CHOOSE i \in 1..Len(ts) :
    labelToCol(ts[i].label) = c /\ \A j \in 1..Len(ts) : labelToCol(ts[j].label) = c => j <= i

\* { [t.label]: !!t.done }: the checks of iniciarTarea, keyed by the raw label
checksByLabel(ts) ==
  [l \in {ts[i].label : i \in 1..Len(ts)} |-> ts[LastWithLabel(ts, l)].done]

\* buildChecksPatch: { [labelToCol(t.label)]: t.done ? 1 : 0 }
checksPatch(ts) ==
  [c \in {labelToCol(ts[i].label) : i \in 1..Len(ts)} |->
     IF ts[LastWithCol(ts, c)].done THEN 1 ELSE 0]

\* s.tasks.every(t => t.done)
everyDone(ts) == \A i \in 1..Len(ts) : ts[i].done
\* s.tasks.some(t => t.done)
someDone(ts) == \E i \in 1..Len(ts) : ts[i].done

(***************************************************************************)
(* Pintura                                                                 *)
(***************************************************************************)

PinturaInit ==
  [dailyCount |-> 0, colorDescripcion |-> <<>>, colorRAL |-> <<>>, sections |-> <<>>,
   pendingId |-> 0, pendingSnapshot |-> NoSnapshot,
   showLeaveModal |-> FALSE, pendingLeaveTarget |-> "none"]

\* a faulty variant of Pintura_applyPendingIfReady: the snapshot is applied, and the
\* buffer cleared, also when the checklist is still empty
Pintura_applyPendingAlways(c) ==
  IF ~c.pendingSnapshot.some THEN c
  ELSE [c EXCEPT
         !.colorDescripcion = IF trim(c.pendingSnapshot.color) # <<>>
                              THEN trim(c.pendingSnapshot.color) ELSE @,
         !.colorRAL = IF trim(c.pendingSnapshot.RAL) # <<>>
                      THEN trim(c.pendingSnapshot.RAL) ELSE @,
         !.sections = applyChecks(@, c.pendingSnapshot.checks),
         !.pendingId = c.pendingSnapshot.id,
         !.pendingSnapshot = NoSnapshot]

Pintura_applyPendingIfReady(c) ==
  IF ~c.pendingSnapshot.some \/ c.sections = <<>> THEN c
  ELSE [c EXCEPT
         !.colorDescripcion = IF trim(c.pendingSnapshot.color) # <<>>
                              THEN trim(c.pendingSnapshot.color) ELSE @,
         !.colorRAL = IF trim(c.pendingSnapshot.RAL) # <<>>
                      THEN trim(c.pendingSnapshot.RAL) ELSE @,
         !.sections = applyChecks(@, c.pendingSnapshot.checks),
         !.pendingId = c.pendingSnapshot.id,
         !.pendingSnapshot = NoSnapshot]

Pintura_colorInputsComplete(c) ==
  Len(trim(c.colorDescripcion)) > 0 /\ Len(trim(c.colorRAL)) > 0

Pintura_sectionComplete(sec) == everyDone(sec.tasks)

Pintura_allComplete(c) ==
  /\ Len(c.sections) > 0
  /\ \A i \in 1..Len(c.sections) : Pintura_sectionComplete(c.sections[i])
  /\ Pintura_colorInputsComplete(c)

\* a faulty variant of Pintura_clearAll: the pending id is kept
Pintura_clearAllKeepsId(c) ==
  [c EXCEPT !.sections = uncheckAll(@), !.colorDescripcion = <<>>, !.colorRAL = <<>>]

Pintura_clearAll(c) ==
  [c EXCEPT !.sections = uncheckAll(@), !.colorDescripcion = <<>>, !.colorRAL = <<>>,
            !.pendingId = 0]

\* afterFinish of continueAndClear (the localStorage write is in the action)
Pintura_afterFinish(c) == Pintura_clearAll([c EXCEPT !.dailyCount = @ + 1])

\* leaveNow: logout removes token and qp_user
leaveSession(target) ==
  IF target = "logout" THEN [token |-> FALSE, userId |-> 0] ELSE sessionStorage
leaveRoute(target) == IF target = "logout" THEN "login" ELSE "/home"
\* this._pendingLeaveTarget || 'home'
targetOrHome(t) == IF t = "none" THEN "home" ELSE t

\* leaveNow: router.navigate away from the stage screen.  The screen is no longer
\* shown, so the model stops following its component, its responses and its timers
Leave(target) ==
  /\ route' = leaveRoute(target)
  /\ sessionStorage' = leaveSession(target)
  /\ net' = EmptyBag
  /\ timers' = EmptyBag

Pintura_leaveNow(target) == Leave(target) /\ pintura' = PinturaInit

\* the leave modal covers the form, and once the save of confirmSaveAndLeave has been
\* sent the operator waits for the navigation
Pintura_formEnabled == ~pintura.showLeaveModal /\ OutstandingSaves = 0

OnPintura == screen = "pintura" /\ route = "stage"
PinturaFrame == UNCHANGED <<screen, premontaje, chasis, montaje>>

\* getCatalogo next: sections.set(ordered); applyPendingIfReady()
Pintura_catalogo_next(rows) ==
  /\ OnPintura /\ InFlight(Req("getCatalogo", "cargarTareasDesdeBD"))
  /\ net' = Consume(net, Req("getCatalogo", "cargarTareasDesdeBD"))
  /\ pintura' = Pintura_applyPendingIfReady(
                   [pintura EXCEPT !.sections = loadSections(rows, <<80, 97, 114, 116, 101, 115>>)])
  /\ UNCHANGED <<sessionStorage, localStorage, route, timers>> /\ PinturaFrame

Pintura_catalogo_error ==
  /\ OnPintura /\ InFlight(Req("getCatalogo", "cargarTareasDesdeBD"))
  /\ net' = Consume(net, Req("getCatalogo", "cargarTareasDesdeBD"))
  /\ UNCHANGED <<pintura, sessionStorage, localStorage, route, timers>> /\ PinturaFrame

\* responses of GET /pendientes/{userId} seen by Pintura
PinturaPendingLists ==
  { <<>>,
    <<PendingItem("premontaje", 2, Rojo, <<>>, <<>>),
      PendingItem("pintura", 1, Rojo, <<>>, <<>>)>> }

\* responses of GET /tareas/pintura/{id}/snapshot
PinturaSnapshots(id) ==
  {[exists |-> FALSE, id |-> 0, color |-> <<>>, RAL |-> <<>>, checks |-> <<>>]}
  \cup {[exists |-> TRUE, id |-> i, color |-> cr[1], RAL |-> cr[2], checks |-> ck] :
          i \in {0, id}, cr \in {<<<<>>, <<>>>>, <<RojoSpaced, Ral3020>>}, ck \in ChecksMaps}

\* autoResumeFromUserPending, getPendientesUsuario next: find mine, ask its snapshot
Pintura_pendientes_next(items) ==
  /\ OnPintura /\ InFlight(Req("getPendientesUsuario", "autoResume"))
  /\ LET mine == FindArea(items, "pintura")
     IN  net' = IF mine.id = 0
                THEN Consume(net, Req("getPendientesUsuario", "autoResume"))
                ELSE Send(Consume(net, Req("getPendientesUsuario", "autoResume")),
                          [Req("getSnapshot", "autoResume") EXCEPT
                             !.id = mine.id, !.color = mine.color, !.RAL = mine.RAL])
  /\ UNCHANGED <<pintura, sessionStorage, localStorage, route, timers>> /\ PinturaFrame

Pintura_pendientes_error ==
  /\ OnPintura /\ InFlight(Req("getPendientesUsuario", "autoResume"))
  /\ net' = Consume(net, Req("getPendientesUsuario", "autoResume"))
  /\ UNCHANGED <<pintura, sessionStorage, localStorage, route, timers>> /\ PinturaFrame

\* the ?? of the snapshot callback: a ?? b is b only when a is null or undefined
Coalesce(a, b) == IF a # <<>> THEN a ELSE b

\* getSnapshot next for the request m (m carries mine): store, then applyPendingIfReady
Pintura_snapshot_next(m, snap) ==
  /\ OnPintura /\ InFlight(m) /\ m.op = "getSnapshot"
  /\ net' = Consume(net, m)
  /\ pintura' =
       IF ~snap.exists THEN pintura
       ELSE Pintura_applyPendingIfReady(
              [pintura EXCEPT !.pendingSnapshot =
                 [some |-> TRUE, color |-> Coalesce(snap.color, m.color),
                  RAL |-> Coalesce(snap.RAL, m.RAL), checks |-> snap.checks,
                  id |-> IF snap.id # 0 THEN snap.id ELSE m.id]])
  /\ UNCHANGED <<sessionStorage, localStorage, route, timers>> /\ PinturaFrame

Pintura_snapshot_error(m) ==
  /\ OnPintura /\ InFlight(m) /\ m.op = "getSnapshot"
  /\ net' = Consume(net, m)
  /\ UNCHANGED <<pintura, sessionStorage, localStorage, route, timers>> /\ PinturaFrame

Pintura_toggleTask(si, ti) ==
  /\ OnPintura /\ Pintura_formEnabled
  /\ si \in 1..Len(pintura.sections) /\ ti \in 1..Len(pintura.sections[si].tasks)
  /\ pintura' = [pintura EXCEPT !.sections[si].tasks[ti].done = ~@]
  /\ UNCHANGED <<net, sessionStorage, localStorage, route, timers>> /\ PinturaFrame

Pintura_onColorInputChange(type, value) ==
  /\ OnPintura /\ Pintura_formEnabled
  /\ pintura' = IF type = "descripcion" THEN [pintura EXCEPT !.colorDescripcion = value]
                ELSE [pintura EXCEPT !.colorRAL = value]
  /\ UNCHANGED <<net, sessionStorage, localStorage, route, timers>> /\ PinturaFrame

Pintura_clearSection(si) ==
  /\ OnPintura /\ Pintura_formEnabled /\ si \in 1..Len(pintura.sections)
  /\ pintura' = [pintura EXCEPT !.sections[si].tasks =
                   [j \in 1..Len(@) |-> [label |-> @[j].label, done |-> FALSE]]]
  /\ UNCHANGED <<net, sessionStorage, localStorage, route, timers>> /\ PinturaFrame

Pintura_clearAllButton ==
  /\ OnPintura /\ Pintura_formEnabled
  /\ pintura' = Pintura_clearAll(pintura)
  /\ UNCHANGED <<net, sessionStorage, localStorage, route, timers>> /\ PinturaFrame

\* the request continueAndClear / confirmSaveAndLeave sends: an update of the
\* pending id when there is one, a start otherwise
Pintura_saveRequest(c, cb) ==
  IF c.pendingId # 0
  THEN [Req("actualizarTarea", cb) EXCEPT
          !.id = c.pendingId, !.color = trim(c.colorDescripcion), !.RAL = trim(c.colorRAL),
          !.patch = checksPatch(allTasks(c.sections))]
  ELSE [Req("iniciarTarea", cb) EXCEPT
          !.userId = sessionStorage.userId, !.color = trim(c.colorDescripcion),
          !.RAL = trim(c.colorRAL), !.checks = checksByLabel(allTasks(c.sections))]

\* a faulty variant of Pintura_continueAndClear: the user id is not tested
Pintura_continueAndClearNoUserCheck ==
  /\ OnPintura /\ Pintura_formEnabled
  /\ Pintura_allComplete(pintura)
  /\ Outstanding < MaxOutstanding /\ pintura.dailyCount < MaxDailyCount
  /\ net' = Send(net, Pintura_saveRequest(pintura, "finish"))
  /\ UNCHANGED <<pintura, sessionStorage, localStorage, route, timers>> /\ PinturaFrame

\* continueAndClear (the confirm button of the modal that finish() opens when
\* allComplete()): returns without effect unless allComplete() and a user id
Pintura_continueAndClear ==
  /\ OnPintura /\ Pintura_formEnabled
  /\ Pintura_allComplete(pintura) /\ sessionStorage.userId # 0
  /\ Outstanding < MaxOutstanding /\ pintura.dailyCount < MaxDailyCount
  /\ net' = Send(net, Pintura_saveRequest(pintura, "finish"))
  /\ UNCHANGED <<pintura, sessionStorage, localStorage, route, timers>> /\ PinturaFrame

\* actualizarTarea next: finalizarTarea(PROCESO, this._pendingId!)
Pintura_actualizar_next(m) ==
  /\ OnPintura /\ InFlight(m) /\ m.op = "actualizarTarea" /\ m.cb = "finish"
  /\ net' = Send(Consume(net, m),
                 [Req("finalizarTarea", "afterFinish") EXCEPT !.id = pintura.pendingId])
  /\ UNCHANGED <<pintura, sessionStorage, localStorage, route, timers>> /\ PinturaFrame

\* a faulty variant of Pintura_iniciar_next: finalizarTarea is sent whether or not the
\* response has an id_area
Pintura_iniciar_nextNoIdCheck(m, newId) ==
  /\ OnPintura /\ InFlight(m) /\ m.op = "iniciarTarea" /\ m.cb = "finish"
  /\ net' = Send(Consume(net, m), [Req("finalizarTarea", "afterFinish") EXCEPT !.id = newId])
  /\ UNCHANGED <<pintura, sessionStorage, localStorage, route, timers>> /\ PinturaFrame

\* iniciarTarea next: finalizarTarea(PROCESO, newId) unless the response has no id_area
Pintura_iniciar_next(m, newId) ==
  /\ OnPintura /\ InFlight(m) /\ m.op = "iniciarTarea" /\ m.cb = "finish"
  /\ net' = IF newId = 0 THEN Consume(net, m)
            ELSE Send(Consume(net, m), [Req("finalizarTarea", "afterFinish") EXCEPT !.id = newId])
  /\ UNCHANGED <<pintura, sessionStorage, localStorage, route, timers>> /\ PinturaFrame

\* a faulty variant of Pintura_flow_error: the failure clears the form
Pintura_flow_errorClears(m) ==
  /\ OnPintura /\ InFlight(m) /\ m.op \in FlowOps /\ m.cb \in {"finish", "afterFinish"}
  /\ net' = Consume(net, m)
  /\ pintura' = Pintura_clearAll(pintura)
  /\ UNCHANGED <<sessionStorage, localStorage, route, timers>> /\ PinturaFrame

\* a faulty variant of Pintura_flow_error: a failed finalizarTarea counts the vehicle
Pintura_flow_errorCounts(m) ==
  /\ OnPintura /\ InFlight(m) /\ m.op \in FlowOps /\ m.cb \in {"finish", "afterFinish"}
  /\ net' = Consume(net, m)
  /\ pintura' = IF m.op = "finalizarTarea"
                THEN [pintura EXCEPT !.dailyCount = @ + 1] ELSE pintura
  /\ UNCHANGED <<sessionStorage, localStorage, route, timers>> /\ PinturaFrame

\* the error callback of the update, start or finalize request of a finalize flow:
\* console.error only
Pintura_flow_error(m) ==
  /\ OnPintura /\ InFlight(m) /\ m.op \in FlowOps /\ m.cb \in {"finish", "afterFinish"}
  /\ net' = Consume(net, m)
  /\ UNCHANGED <<pintura, sessionStorage, localStorage, route, timers>> /\ PinturaFrame

\* finalizarTarea next: afterFinish
Pintura_finalizar_next(m) ==
  /\ OnPintura /\ InFlight(m) /\ m.op = "finalizarTarea"
  /\ net' = Consume(net, m)
  /\ pintura' = Pintura_afterFinish(pintura)
  /\ localStorage' = [localStorage EXCEPT !.count = pintura.dailyCount + 1]
  /\ UNCHANGED <<sessionStorage, route, timers>> /\ PinturaFrame

\* goHome() / logout(): tryLeave(target)
Pintura_tryLeave(target) ==
  /\ OnPintura /\ Pintura_formEnabled
  /\ IF Pintura_colorInputsComplete(pintura)
     THEN /\ pintura' = [pintura EXCEPT !.pendingLeaveTarget = target, !.showLeaveModal = TRUE]
          /\ UNCHANGED <<sessionStorage, route>>
          /\ UNCHANGED <<net, timers>>
     ELSE Pintura_leaveNow(target)
  /\ UNCHANGED localStorage /\ PinturaFrame

\* confirmSaveAndLeave (a button of the leave modal)
Pintura_confirmSaveAndLeave ==
  /\ OnPintura /\ pintura.showLeaveModal
  /\ IF ~Pintura_colorInputsComplete(pintura) \/ sessionStorage.userId = 0
     THEN Pintura_leaveNow(targetOrHome(pintura.pendingLeaveTarget))
     ELSE /\ OutstandingSaves < MaxSaves
          /\ net' = Send(net, Pintura_saveRequest(pintura, "leave"))
          /\ UNCHANGED <<pintura, sessionStorage, route, timers>>
  /\ UNCHANGED localStorage /\ PinturaFrame

\* done, the next and the error callback of the save of confirmSaveAndLeave
Pintura_leave_done(m) ==
  /\ OnPintura /\ InFlight(m) /\ m.cb = "leave"
  /\ Pintura_leaveNow(targetOrHome(pintura.pendingLeaveTarget))
  /\ UNCHANGED localStorage /\ PinturaFrame

Pintura_confirmLeaveWithoutSaving ==
  /\ OnPintura /\ pintura.showLeaveModal
  /\ Pintura_leaveNow(targetOrHome(pintura.pendingLeaveTarget))
  /\ UNCHANGED localStorage /\ PinturaFrame

Pintura_cancelLeave ==
  /\ OnPintura /\ pintura.showLeaveModal
  /\ pintura' = [pintura EXCEPT !.showLeaveModal = FALSE, !.pendingLeaveTarget = "none"]
  /\ UNCHANGED <<net, sessionStorage, localStorage, route, timers>> /\ PinturaFrame

\* the requests of autoResumeFromUserPending: none without a user id
resumeRequests ==
  IF sessionStorage.userId # 0 THEN {Req("getPendientesUsuario", "autoResume")} ELSE {}

\* ngOnInit: the counter, cargarTareasDesdeBD, autoResumeFromUserPending
Pintura_ngOnInit ==
  /\ screen = "pintura" /\ route = "opening"
  /\ route' = "stage"
  /\ pintura' = [pintura EXCEPT !.dailyCount = localStorage.count]
  /\ net' = net (+) SetToBag({Req("getCatalogo", "cargarTareasDesdeBD")} \cup resumeRequests)
  /\ UNCHANGED <<sessionStorage, localStorage, timers>> /\ PinturaFrame

PinturaNext ==
  \/ Pintura_ngOnInit
  \/ \E rows \in Catalogs : Pintura_catalogo_next(rows)
  \/ Pintura_catalogo_error
  \/ \E items \in PinturaPendingLists : Pintura_pendientes_next(items)
  \/ Pintura_pendientes_error
  \/ \E m \in BagToSet(net) :
        \/ \E snap \in PinturaSnapshots(m.id) : Pintura_snapshot_next(m, snap)
        \/ Pintura_snapshot_error(m)
        \/ Pintura_actualizar_next(m)
        \/ \E newId \in NewIds : Pintura_iniciar_next(m, newId)
        \/ Pintura_flow_error(m)
        \/ Pintura_finalizar_next(m)
        \/ Pintura_leave_done(m)
  \/ \E si \in 1..2, ti \in 1..2 : Pintura_toggleTask(si, ti)
  \/ \E si \in 1..2 : Pintura_clearSection(si)
  \/ Pintura_clearAllButton
  \/ \E v \in {<<>>, Rojo} : Pintura_onColorInputChange("descripcion", v)
  \/ \E v \in {<<>>, Ral3020} : Pintura_onColorInputChange("ral", v)
  \/ Pintura_continueAndClear
  \/ \E t \in {"home", "logout"} : Pintura_tryLeave(t)
  \/ Pintura_confirmSaveAndLeave
  \/ Pintura_confirmLeaveWithoutSaving
  \/ Pintura_cancelLeave

(***************************************************************************)
(* Premontaje                                                              *)
(***************************************************************************)

\* /^#([0-9A-F]{3}|[0-9A-F]{6})$/i.test(s)
isHex(s) ==
  /\ Len(s) \in {4, 7}
  /\ s[1] = 35
  /\ \A i \in 2..Len(s) : IsHexDigit(s[i])

\* toLabel: a hex code in upper case, a name in lower case with the first letter of
\* every word (/\b\w/g) in upper case
toLabel(v) ==
  LET s == trim(v)
      l == toLowerCase(s)
  IN  IF isHex(s) THEN toUpperCase(s)
      ELSE [i \in 1..Len(l) |->
              IF IsWordChar(l[i]) /\ (i = 1 \/ ~IsWordChar(l[i - 1])) THEN Upper(l[i]) ELSE l[i]]

\* colorOptions.sort((a, b) => a.label.localeCompare(b.label, 'es', {sensitivity: 'base'}))
RECURSIVE InsertColor(_, _)
InsertColor(sorted, x) ==
  IF sorted = <<>> THEN <<x>>
  ELSE IF localeCompare(Head(sorted).label, x.label) > 0 THEN <<x>> \o sorted
  ELSE <<Head(sorted)>> \o InsertColor(Tail(sorted), x)

RECURSIVE sortColors(_)
sortColors(opts) ==
  IF opts = <<>> THEN <<>>
  ELSE InsertColor(sortColors(SubSeq(opts, 1, Len(opts) - 1)), opts[Len(opts)])

\* pushColorIfMissing
pushColorIfMissing(opts, raw) ==
  LET val == trim(raw)
      exists == \E i \in 1..Len(opts) :
                   \/ toUpperCase(opts[i].value) = toUpperCase(val)
                   \/ toLowerCase(opts[i].label) = toLowerCase(val)
  IN  IF val = <<>> \/ exists THEN opts
      ELSE sortColors(Append(opts, [label |-> toLabel(val), value |-> val]))

\* the loop of cargarColoresDesdePintura: trimmed, non-empty, first of every
\* upper-case key
RECURSIVE dedupeColors(_, _)
dedupeColors(dbColors, acc) ==
  IF dbColors = <<>> THEN acc
  ELSE LET val == trim(Head(dbColors))
       IN  dedupeColors(Tail(dbColors),
             IF val = <<>> \/ \E i \in 1..Len(acc) : toUpperCase(acc[i].value) = toUpperCase(val)
             THEN acc
             ELSE Append(acc, [label |-> toLabel(val), value |-> val]))

loadColors(dbColors) == sortColors(dedupeColors(dbColors, <<>>))

\* colorOptions.find(o => o.value.toUpperCase() === c.toUpperCase()): its index, 0 if none
findColor(opts, c) ==
  LET I == {i \in 1..Len(opts) : toUpperCase(opts[i].value) = toUpperCase(c)}
  IN  IF I = {} THEN 0 ELSE CHOOSE i \in I : \A j \in I : i <= j

PremontajeInit ==
  [dailyCount |-> 0, colorOptions |-> <<>>, vehicleColorHex |-> <<>>,
   vehicleColorName |-> <<>>, sections |-> <<>>,
   pendingId |-> 0, pendingSnapshot |-> NoSnapshot,
   showLeaveModal |-> FALSE, pendingLeaveTarget |-> "none"]

\* step 1 of applyPendingIfReady: the color of the snapshot, if it has one
Premontaje_applyColor(c, color) ==
  LET v    == trim(color)
      opts == pushColorIfMissing(c.colorOptions, v)
      k    == findColor(opts, v)
  IN  IF v = <<>> THEN c
      ELSE [c EXCEPT !.colorOptions = opts,
                     !.vehicleColorHex = IF k # 0 THEN opts[k].value ELSE v,
                     !.vehicleColorName = IF k # 0 THEN opts[k].label ELSE toLabel(v)]

\* a faulty variant of Premontaje_applyPendingIfReady: the buffer is kept after the
\* snapshot has been applied
Premontaje_applyPendingKeepsBuffer(c) ==
  IF ~c.pendingSnapshot.some \/ c.sections = <<>> THEN c
  ELSE [Premontaje_applyColor(c, c.pendingSnapshot.color) EXCEPT
         !.sections = applyChecks(@, c.pendingSnapshot.checks),
         !.pendingId = c.pendingSnapshot.id]

Premontaje_applyPendingIfReady(c) ==
  IF ~c.pendingSnapshot.some \/ c.sections = <<>> THEN c
  ELSE [Premontaje_applyColor(c, c.pendingSnapshot.color) EXCEPT
         !.sections = applyChecks(@, c.pendingSnapshot.checks),
         !.pendingId = c.pendingSnapshot.id,
         !.pendingSnapshot = NoSnapshot]

\* setColor
Premontaje_setColor(c, value) ==
  LET k == findColor(c.colorOptions, value)
  IN  [c EXCEPT !.vehicleColorHex = value,
                !.vehicleColorName = IF k # 0 THEN c.colorOptions[k].label ELSE value]

Premontaje_sectionComplete(sec) == Len(sec.tasks) > 0 /\ everyDone(sec.tasks)
Premontaje_validColor(c) == c.vehicleColorHex # <<>>

Premontaje_allComplete(c) ==
  /\ Len(c.sections) > 0
  /\ \A i \in 1..Len(c.sections) : Premontaje_sectionComplete(c.sections[i])
  /\ Premontaje_validColor(c)

Premontaje_clearAll(c) ==
  [c EXCEPT !.sections = uncheckAll(@), !.vehicleColorHex = <<>>,
            !.vehicleColorName = <<>>, !.pendingId = 0]

Premontaje_afterFinish(c) == Premontaje_clearAll([c EXCEPT !.dailyCount = @ + 1])

Premontaje_leaveNow(target) == Leave(target) /\ premontaje' = PremontajeInit

\* the leave modal covers the form, and once the save of confirmSaveAndLeave has been
\* sent the operator waits for the navigation
Premontaje_formEnabled == ~premontaje.showLeaveModal /\ OutstandingSaves = 0

OnPremontaje == screen = "premontaje" /\ route = "stage"
PremontajeFrame == UNCHANGED <<screen, pintura, chasis, montaje>>


\* "Fase 1", the default section name of Premontaje
SecFase1 == <<70, 97, 115, 101, 32, 49>>

\* getCatalogo next: sections.set(ordered); applyPendingIfReady()
Premontaje_catalogo_next(rows) ==
  /\ OnPremontaje /\ InFlight(Req("getCatalogo", "cargarTareasDesdeBD"))
  /\ net' = Consume(net, Req("getCatalogo", "cargarTareasDesdeBD"))
  /\ premontaje' = Premontaje_applyPendingIfReady(
                      [premontaje EXCEPT !.sections = loadSections(rows, SecFase1)])
  /\ UNCHANGED <<sessionStorage, localStorage, route, timers>> /\ PremontajeFrame

Premontaje_catalogo_error ==
  /\ OnPremontaje /\ InFlight(Req("getCatalogo", "cargarTareasDesdeBD"))
  /\ net' = Consume(net, Req("getCatalogo", "cargarTareasDesdeBD"))
  /\ UNCHANGED <<premontaje, sessionStorage, localStorage, route, timers>> /\ PremontajeFrame

\* responses of GET /pintura/colores
ColorLists == { <<>>, <<RojoSpaced, <<>>, toUpperCase(Rojo)>> }

\* getColoresPintura next: colorOptions rebuilt; applyPendingIfReady()
Premontaje_colores_next(dbColors) ==
  /\ OnPremontaje /\ InFlight(Req("getColoresPintura", "cargarColoresDesdePintura"))
  /\ net' = Consume(net, Req("getColoresPintura", "cargarColoresDesdePintura"))
  /\ premontaje' = Premontaje_applyPendingIfReady(
                      [premontaje EXCEPT !.colorOptions = loadColors(dbColors)])
  /\ UNCHANGED <<sessionStorage, localStorage, route, timers>> /\ PremontajeFrame

Premontaje_colores_error ==
  /\ OnPremontaje /\ InFlight(Req("getColoresPintura", "cargarColoresDesdePintura"))
  /\ net' = Consume(net, Req("getColoresPintura", "cargarColoresDesdePintura"))
  /\ UNCHANGED <<premontaje, sessionStorage, localStorage, route, timers>> /\ PremontajeFrame

\* responses of GET /pendientes/{userId} seen by Premontaje
PremontajePendingLists ==
  { <<>>,
    <<PendingItem("pintura", 2, Rojo, Ral3020, <<>>),
      PendingItem("premontaje", 1, Rojo, <<>>, <<>>)>> }

\* responses of GET /tareas/premontaje/{id}/snapshot
PremontajeSnapshots(id) ==
  {[exists |-> FALSE, id |-> 0, color |-> <<>>, RAL |-> <<>>, checks |-> <<>>]}
  \cup {[exists |-> TRUE, id |-> i, color |-> c, RAL |-> <<>>, checks |-> ck] :
          i \in {0, id}, c \in {<<>>, RojoSpaced}, ck \in ChecksMaps}

\* autoResumeFromUserPending, getPendientesUsuario next: find mine, ask its snapshot
Premontaje_pendientes_next(items) ==
  /\ OnPremontaje /\ InFlight(Req("getPendientesUsuario", "autoResume"))
  /\ LET mine == FindArea(items, "premontaje")
     IN  net' = IF mine.id = 0
                THEN Consume(net, Req("getPendientesUsuario", "autoResume"))
                ELSE Send(Consume(net, Req("getPendientesUsuario", "autoResume")),
                          [Req("getSnapshot", "autoResume") EXCEPT
                             !.id = mine.id, !.color = mine.color])
  /\ UNCHANGED <<premontaje, sessionStorage, localStorage, route, timers>> /\ PremontajeFrame

Premontaje_pendientes_error ==
  /\ OnPremontaje /\ InFlight(Req("getPendientesUsuario", "autoResume"))
  /\ net' = Consume(net, Req("getPendientesUsuario", "autoResume"))
  /\ UNCHANGED <<premontaje, sessionStorage, localStorage, route, timers>> /\ PremontajeFrame

\* getSnapshot next for the request m (m carries mine): store, then applyPendingIfReady
Premontaje_snapshot_next(m, snap) ==
  /\ OnPremontaje /\ InFlight(m) /\ m.op = "getSnapshot"
  /\ net' = Consume(net, m)
  /\ premontaje' =
       IF ~snap.exists THEN premontaje
       ELSE Premontaje_applyPendingIfReady(
              [premontaje EXCEPT !.pendingSnapshot =
                 [some |-> TRUE, color |-> Coalesce(snap.color, m.color), RAL |-> <<>>,
                  checks |-> snap.checks, id |-> IF snap.id # 0 THEN snap.id ELSE m.id]])
  /\ UNCHANGED <<sessionStorage, localStorage, route, timers>> /\ PremontajeFrame

Premontaje_snapshot_error(m) ==
  /\ OnPremontaje /\ InFlight(m) /\ m.op = "getSnapshot"
  /\ net' = Consume(net, m)
  /\ UNCHANGED <<premontaje, sessionStorage, localStorage, route, timers>> /\ PremontajeFrame

Premontaje_toggleTask(si, ti) ==
  /\ OnPremontaje /\ Premontaje_formEnabled
  /\ si \in 1..Len(premontaje.sections) /\ ti \in 1..Len(premontaje.sections[si].tasks)
  /\ premontaje' = [premontaje EXCEPT !.sections[si].tasks[ti].done = ~@]
  /\ UNCHANGED <<net, sessionStorage, localStorage, route, timers>> /\ PremontajeFrame

\* the color select: an option of colorOptions, or the empty option
Premontaje_setColorSelect(value) ==
  /\ OnPremontaje /\ Premontaje_formEnabled
  /\ value = <<>> \/ \E i \in 1..Len(premontaje.colorOptions) :
                        premontaje.colorOptions[i].value = value
  /\ premontaje' = Premontaje_setColor(premontaje, value)
  /\ UNCHANGED <<net, sessionStorage, localStorage, route, timers>> /\ PremontajeFrame

Premontaje_clearSection(si) ==
  /\ OnPremontaje /\ Premontaje_formEnabled /\ si \in 1..Len(premontaje.sections)
  /\ premontaje' = [premontaje EXCEPT !.sections[si].tasks =
                      [j \in 1..Len(@) |-> [label |-> @[j].label, done |-> FALSE]]]
  /\ UNCHANGED <<net, sessionStorage, localStorage, route, timers>> /\ PremontajeFrame

Premontaje_clearAllButton ==
  /\ OnPremontaje /\ Premontaje_formEnabled
  /\ premontaje' = Premontaje_clearAll(premontaje)
  /\ UNCHANGED <<net, sessionStorage, localStorage, route, timers>> /\ PremontajeFrame

\* the request continueAndClear / confirmSaveAndLeave sends
Premontaje_saveRequest(c, cb) ==
  IF c.pendingId # 0
  THEN [Req("actualizarTarea", cb) EXCEPT
          !.id = c.pendingId, !.color = c.vehicleColorHex,
          !.patch = checksPatch(allTasks(c.sections))]
  ELSE [Req("iniciarTarea", cb) EXCEPT
          !.userId = sessionStorage.userId, !.color = c.vehicleColorHex,
          !.checks = checksByLabel(allTasks(c.sections))]

Premontaje_continueAndClear ==
  /\ OnPremontaje /\ Premontaje_formEnabled
  /\ Premontaje_allComplete(premontaje) /\ sessionStorage.userId # 0
  /\ Outstanding < MaxOutstanding /\ premontaje.dailyCount < MaxDailyCount
  /\ net' = Send(net, Premontaje_saveRequest(premontaje, "finish"))
  /\ UNCHANGED <<premontaje, sessionStorage, localStorage, route, timers>> /\ PremontajeFrame

\* actualizarTarea next: finalizarTarea(PROCESO, this._pendingId!)
Premontaje_actualizar_next(m) ==
  /\ OnPremontaje /\ InFlight(m) /\ m.op = "actualizarTarea" /\ m.cb = "finish"
  /\ net' = Send(Consume(net, m),
                 [Req("finalizarTarea", "afterFinish") EXCEPT !.id = premontaje.pendingId])
  /\ UNCHANGED <<premontaje, sessionStorage, localStorage, route, timers>> /\ PremontajeFrame

\* iniciarTarea next: finalizarTarea(PROCESO, newId) unless the response has no id_area
Premontaje_iniciar_next(m, newId) ==
  /\ OnPremontaje /\ InFlight(m) /\ m.op = "iniciarTarea" /\ m.cb = "finish"
  /\ net' = IF newId = 0 THEN Consume(net, m)
            ELSE Send(Consume(net, m), [Req("finalizarTarea", "afterFinish") EXCEPT !.id = newId])
  /\ UNCHANGED <<premontaje, sessionStorage, localStorage, route, timers>> /\ PremontajeFrame

Premontaje_flow_error(m) ==
  /\ OnPremontaje /\ InFlight(m) /\ m.op \in FlowOps /\ m.cb \in {"finish", "afterFinish"}
  /\ net' = Consume(net, m)
  /\ UNCHANGED <<premontaje, sessionStorage, localStorage, route, timers>> /\ PremontajeFrame

\* finalizarTarea next: afterFinish
Premontaje_finalizar_next(m) ==
  /\ OnPremontaje /\ InFlight(m) /\ m.op = "finalizarTarea"
  /\ net' = Consume(net, m)
  /\ premontaje' = Premontaje_afterFinish(premontaje)
  /\ localStorage' = [localStorage EXCEPT !.count = premontaje.dailyCount + 1]
  /\ UNCHANGED <<sessionStorage, route, timers>> /\ PremontajeFrame

Premontaje_tryLeave(target) ==
  /\ OnPremontaje /\ Premontaje_formEnabled
  /\ IF Premontaje_validColor(premontaje)
     THEN /\ premontaje' = [premontaje EXCEPT !.pendingLeaveTarget = target,
                                              !.showLeaveModal = TRUE]
          /\ UNCHANGED <<sessionStorage, route>>
          /\ UNCHANGED <<net, timers>>
     ELSE Premontaje_leaveNow(target)
  /\ UNCHANGED localStorage /\ PremontajeFrame

Premontaje_confirmSaveAndLeave ==
  /\ OnPremontaje /\ premontaje.showLeaveModal
  /\ IF ~Premontaje_validColor(premontaje) \/ sessionStorage.userId = 0
     THEN Premontaje_leaveNow(targetOrHome(premontaje.pendingLeaveTarget))
     ELSE /\ OutstandingSaves < MaxSaves
          /\ net' = Send(net, Premontaje_saveRequest(premontaje, "leave"))
          /\ UNCHANGED <<premontaje, sessionStorage, route, timers>>
  /\ UNCHANGED localStorage /\ PremontajeFrame

\* done, the next and the error callback of the save of confirmSaveAndLeave
Premontaje_leave_done(m) ==
  /\ OnPremontaje /\ InFlight(m) /\ m.cb = "leave"
  /\ Premontaje_leaveNow(targetOrHome(premontaje.pendingLeaveTarget))
  /\ UNCHANGED localStorage /\ PremontajeFrame

Premontaje_confirmLeaveWithoutSaving ==
  /\ OnPremontaje /\ premontaje.showLeaveModal
  /\ Premontaje_leaveNow(targetOrHome(premontaje.pendingLeaveTarget))
  /\ UNCHANGED localStorage /\ PremontajeFrame

Premontaje_cancelLeave ==
  /\ OnPremontaje /\ premontaje.showLeaveModal
  /\ premontaje' = [premontaje EXCEPT !.showLeaveModal = FALSE, !.pendingLeaveTarget = "none"]
  /\ UNCHANGED <<net, sessionStorage, localStorage, route, timers>> /\ PremontajeFrame

\* ngOnInit: the counter, cargarColoresDesdePintura, cargarTareasDesdeBD,
\* autoResumeFromUserPending
Premontaje_ngOnInit ==
  /\ screen = "premontaje" /\ route = "opening"
  /\ route' = "stage"
  /\ premontaje' = [premontaje EXCEPT !.dailyCount = localStorage.count]
  /\ net' = net (+) SetToBag({Req("getColoresPintura", "cargarColoresDesdePintura"),
                              Req("getCatalogo", "cargarTareasDesdeBD")} \cup resumeRequests)
  /\ UNCHANGED <<sessionStorage, localStorage, timers>> /\ PremontajeFrame

PremontajeNext ==
  \/ Premontaje_ngOnInit
  \/ \E rows \in Catalogs : Premontaje_catalogo_next(rows)
  \/ Premontaje_catalogo_error
  \/ \E dbColors \in ColorLists : Premontaje_colores_next(dbColors)
  \/ Premontaje_colores_error
  \/ \E items \in PremontajePendingLists : Premontaje_pendientes_next(items)
  \/ Premontaje_pendientes_error
  \/ \E m \in BagToSet(net) :
        \/ \E snap \in PremontajeSnapshots(m.id) : Premontaje_snapshot_next(m, snap)
        \/ Premontaje_snapshot_error(m)
        \/ Premontaje_actualizar_next(m)
        \/ \E newId \in NewIds : Premontaje_iniciar_next(m, newId)
        \/ Premontaje_flow_error(m)
        \/ Premontaje_finalizar_next(m)
        \/ Premontaje_leave_done(m)
  \/ \E si \in 1..2, ti \in 1..2 : Premontaje_toggleTask(si, ti)
  \/ \E si \in 1..2 : Premontaje_clearSection(si)
  \/ Premontaje_clearAllButton
  \/ \E v \in {<<>>, Rojo} : Premontaje_setColorSelect(v)
  \/ Premontaje_continueAndClear
  \/ \E t \in {"home", "logout"} : Premontaje_tryLeave(t)
  \/ Premontaje_confirmSaveAndLeave
  \/ Premontaje_confirmLeaveWithoutSaving
  \/ Premontaje_cancelLeave

(***************************************************************************)
(* Chasis                                                                  *)
(***************************************************************************)

\* the length of a VIN
VinLength == 17

\* "WVWZZZ1JZXW000001" and "WVWZZZ1JZXW000002"
VinA == <<87, 86, 87, 90, 90, 90, 49, 74, 90, 88, 87, 48, 48, 48, 48, 48, 49>>
VinB == <<87, 86, 87, 90, 90, 90, 49, 74, 90, 88, 87, 48, 48, 48, 48, 48, 50>>
\* what the operator types: "wvw-zzz1jzxw000001xx", VinB itself, "ab-1"
RawA == <<119, 118, 119, 45, 122, 122, 122, 49, 106, 122, 120, 119, 48, 48, 48, 48, 48, 49,
          120, 120>>
RawShort == <<97, 98, 45, 49>>
\* "wvw-zzz1jzxw000001", what the operator of Montaje types
RawVinA == SubSeq(RawA, 1, 18)
\* the bastidor of a stored snapshot: " wvwzzz1jzxw000001 "
StoredA == <<32>> \o toLowerCase(VinA) \o <<32>>

\* .replace(/[^A-Z0-9]/g, '')
stripNonVinChars(s) == SelectSeq(s, LAMBDA c : c \in 65..90 \/ c \in 48..57)
\* .slice(0, n)
slice0(s, n) == SubSeq(s, 1, IF Len(s) < n THEN Len(s) ELSE n)

\* (value || '').toUpperCase().replace(/[^A-Z0-9]/g, '').slice(0, 17)
cleanVin(value) == slice0(stripNonVinChars(toUpperCase(value)), VinLength)

\* a faulty variant of isValidVin: the length is not looked at
isValidVinAnyLength(v) ==
  /\ v # <<>>
  /\ \A i \in 1..Len(v) : Upper(v[i]) \in 65..90 \/ Upper(v[i]) \in 48..57

\* isValidVin: /^[A-Z0-9]{17}$/.test(v.toUpperCase())
isValidVin(v) ==
  /\ v # <<>>
  /\ Len(v) = VinLength
  /\ \A i \in 1..Len(v) : Upper(v[i]) \in 65..90 \/ Upper(v[i]) \in 48..57

\* _buffered = null
NoBuffer == [some |-> FALSE, vin |-> <<>>, checks |-> <<>>, id |-> 0]

ChasisInit ==
  [dailyCount |-> 0, tasks |-> <<>>, bastidor |-> <<>>, vinState |-> "idle",
   pendingId |-> 0, buffered |-> NoBuffer, showLeaveModal |-> FALSE, leaveTarget |-> "none"]

\* a faulty variant of applyChecksToTasks: an item that is checked stays checked
applyChecksToTasksMerging(ts, ck) ==
  [i \in 1..Len(ts) |->
     [label |-> ts[i].label, done |-> ts[i].done \/ Truthy(ck, labelToCol(ts[i].label))]]

\* arr[i].done = !!checks[labelToCol(arr[i].label)]
applyChecksToTasks(ts, ck) ==
  [i \in 1..Len(ts) |-> [label |-> ts[i].label, done |-> Truthy(ck, labelToCol(ts[i].label))]]

\* applyPendingChecks: buffers when no task is loaded
Chasis_applyPendingChecks(c, checks) ==
  IF Len(c.tasks) = 0
  THEN [c EXCEPT !.buffered = [some |-> TRUE, vin |-> c.bastidor, checks |-> checks,
                               id |-> c.pendingId]]
  ELSE [c EXCEPT !.tasks = applyChecksToTasks(@, checks)]

\* flushBufferedIfAny without its timer, which the action adds
Chasis_flushBufferedIfAny(c) ==
  IF ~c.buffered.some THEN c
  ELSE [c EXCEPT !.pendingId = c.buffered.id,
                 !.tasks = applyChecksToTasks(@, c.buffered.checks),
                 !.vinState = "ok",
                 !.buffered = NoBuffer]

\* clearAll: every task undone, then clearBastidor
Chasis_clearAll(c) ==
  [c EXCEPT !.tasks = [i \in 1..Len(@) |-> [label |-> @[i].label, done |-> FALSE]],
            !.bastidor = <<>>, !.vinState = "idle", !.pendingId = 0]

\* a faulty variant of Chasis_allComplete: an empty checklist counts as complete
Chasis_allCompleteOrEmpty(c) == everyDone(c.tasks)
Chasis_allComplete(c) == Len(c.tasks) > 0 /\ everyDone(c.tasks)
Chasis_canFinish(c) == Chasis_allComplete(c) /\ c.vinState = "ok"
Chasis_hasProgress(c) == someDone(c.tasks) /\ c.bastidor # <<>>
Chasis_shouldPromptOnLeave(c) == Chasis_hasProgress(c) /\ c.vinState = "ok"

\* queueOrApplyChecks
Chasis_queueOrApplyChecks(c, vin, checks, id) ==
  LET d == [c EXCEPT !.pendingId = id, !.bastidor = vin]
  IN  IF Len(d.tasks) = 0
      THEN [d EXCEPT !.buffered = [some |-> TRUE, vin |-> vin, checks |-> checks,
                                   id |-> d.pendingId]]
      ELSE Chasis_applyPendingChecks(d, checks)

\* localStorage SNAPSHOT_CHASIS when Chasis opens: absent, or the snapshot of a pending
\* record of VinA that Pendientes stored
NoStored == [some |-> FALSE, id |-> 0, bastidor |-> <<>>, checks |-> <<>>]
StoredSnapshots ==
  { NoStored,
    [some |-> TRUE, id |-> CHOOSE i \in RecordIds : TRUE, bastidor |-> StoredA,
     checks |-> ChecksPartial] }

\* consumeSnapshotIfAny without its timer and its localStorage writes
Chasis_consumeSnapshotIfAny(c, snap) ==
  LET vin == trim(toUpperCase(snap.bastidor))
  IN  IF ~snap.some THEN c
      ELSE IF vin = <<>> THEN [c EXCEPT !.pendingId = snap.id, !.vinState = "idle"]
      ELSE [Chasis_queueOrApplyChecks([c EXCEPT !.pendingId = snap.id], vin, snap.checks, snap.id)
              EXCEPT !.vinState = "ok"]

Chasis_leaveNow(target) == Leave(target) /\ chasis' = ChasisInit

\* closeModalLeave: the modal is hidden and _leaveTarget is set to null.  The leave
\* handlers call it before they read _leaveTarget for leaveNow
Chasis_closeModal(c) == [c EXCEPT !.showLeaveModal = FALSE, !.leaveTarget = "none"]

\* the leave modal covers the form, once the save of confirmSaveAndLeave has been
\* sent the operator waits for the navigation, and the operator does not act within
\* the 300 ms of a re-validation timer
Chasis_formEnabled == ~chasis.showLeaveModal /\ OutstandingSaves = 0 /\ timers = EmptyBag

OnChasis == screen = "chasis" /\ route = "stage"
ChasisFrame == UNCHANGED <<screen, pintura, premontaje, montaje>>


\* a faulty variant of Chasis_ngOnInit: the snapshot is read and left in localStorage
Chasis_ngOnInitKeepsSnapshot ==
  /\ screen = "chasis" /\ route = "opening"
  /\ route' = "stage"
  /\ LET snap == localStorage.SNAPSHOT_CHASIS
         vin  == trim(toUpperCase(snap.bastidor))
     IN  /\ chasis' = Chasis_consumeSnapshotIfAny(
                         [chasis EXCEPT !.dailyCount = localStorage.count], snap)
         /\ localStorage' = [localStorage EXCEPT
                               !.CHASIS_VIN = IF snap.some /\ vin # <<>> THEN vin ELSE @]
         /\ timers' = IF snap.some /\ vin # <<>> THEN Send(timers, vin) ELSE timers
  /\ net' = Send(net, Req("getCatalogo", "cargarTareasDesdeBD"))
  /\ UNCHANGED sessionStorage /\ ChasisFrame

\* ngOnInit: the counter, cargarTareasDesdeBD, consumeSnapshotIfAny (one-shot)
Chasis_ngOnInit ==
  /\ screen = "chasis" /\ route = "opening"
  /\ route' = "stage"
  /\ LET snap == localStorage.SNAPSHOT_CHASIS
         vin  == trim(toUpperCase(snap.bastidor))
     IN  /\ chasis' = Chasis_consumeSnapshotIfAny(
                         [chasis EXCEPT !.dailyCount = localStorage.count], snap)
         /\ localStorage' = [localStorage EXCEPT
                               !.SNAPSHOT_CHASIS = NoStored,
                               !.CHASIS_VIN = IF snap.some /\ vin # <<>> THEN vin ELSE @]
         /\ timers' = IF snap.some /\ vin # <<>> THEN Send(timers, vin) ELSE timers
  /\ net' = Send(net, Req("getCatalogo", "cargarTareasDesdeBD"))
  /\ UNCHANGED sessionStorage /\ ChasisFrame

\* getCatalogo next: tasks.set(...); flushBufferedIfAny()
Chasis_catalogo_next(rows) ==
  /\ OnChasis /\ InFlight(Req("getCatalogo", "cargarTareasDesdeBD"))
  /\ net' = Consume(net, Req("getCatalogo", "cargarTareasDesdeBD"))
  /\ chasis' = Chasis_flushBufferedIfAny([chasis EXCEPT !.tasks = loadTasks(rows)])
  /\ timers' = IF chasis.buffered.some THEN Send(timers, chasis.buffered.vin) ELSE timers
  /\ UNCHANGED <<sessionStorage, localStorage, route>> /\ ChasisFrame

Chasis_catalogo_error ==
  /\ OnChasis /\ InFlight(Req("getCatalogo", "cargarTareasDesdeBD"))
  /\ net' = Consume(net, Req("getCatalogo", "cargarTareasDesdeBD"))
  /\ UNCHANGED <<chasis, sessionStorage, localStorage, route, timers>> /\ ChasisFrame

\* the status queries that are outstanding
OutstandingChecks ==
  CountWhere({m \in BagToSet(net) :
                \/ m.op \in {"getVinEstadoChasis", "isVinDisponibleEnMontaje",
                             "getColorPinturaPorVin"}
                \/ m.op = "getPendiente" /\ m.cb = "onVinInput"})

\* onBastidorInput(value), the part that is common to the input event and the timer
Chasis_onBastidorInput(value) ==
  LET clean == cleanVin(value)
      c     == [chasis EXCEPT !.bastidor = clean, !.pendingId = 0]
  IN  /\ localStorage' = [localStorage EXCEPT !.CHASIS_VIN = clean]
      /\ IF clean = <<>>
         THEN chasis' = [c EXCEPT !.vinState = "idle"] /\ UNCHANGED net
         ELSE IF ~isValidVin(clean)
         THEN chasis' = [c EXCEPT !.vinState = "invalid"] /\ UNCHANGED net
         ELSE /\ chasis' = [c EXCEPT !.vinState = "checking"]
              /\ OutstandingChecks < MaxChecks
              /\ net' = Send(net, [Req("getVinEstadoChasis", "onBastidorInput") EXCEPT
                                     !.bastidor = clean])

\* the input event of the VIN field
Chasis_input(value) ==
  /\ OnChasis /\ Chasis_formEnabled
  /\ Chasis_onBastidorInput(value)
  /\ UNCHANGED <<sessionStorage, route, timers>> /\ ChasisFrame

\* setTimeout(() => this.onBastidorInput(vin), 300) fires
Chasis_timeout(vin) ==
  /\ OnChasis /\ BagIn(vin, timers)
  /\ timers' = Consume(timers, vin)
  /\ Chasis_onBastidorInput(vin)
  /\ UNCHANGED <<sessionStorage, route>> /\ ChasisFrame

\* responses of GET /tareas/chasis/vin/{vin}/estado
VinEstadoResps ==
  {[status |-> "finalized", id |-> 0, checks |-> <<>>],
   [status |-> "free", id |-> 0, checks |-> <<>>]}
  \cup {[status |-> "pending", id |-> i, checks |-> ck] :
          i \in RecordIds, ck \in {ChecksPartial, ChecksSparse}}

\* getVinEstadoChasis next
Chasis_vinEstado_next(m, resp) ==
  /\ OnChasis /\ InFlight(m) /\ m.op = "getVinEstadoChasis"
  /\ net' = Consume(net, m)
  /\ chasis' =
       IF resp.status = "finalized" THEN [chasis EXCEPT !.vinState = "finalized"]
       ELSE IF resp.status = "pending"
       THEN [Chasis_applyPendingChecks(chasis, resp.checks) EXCEPT
               !.pendingId = resp.id, !.vinState = "ok"]
       ELSE [chasis EXCEPT !.vinState = "ok"]
  /\ UNCHANGED <<sessionStorage, localStorage, route, timers>> /\ ChasisFrame

\* getVinEstadoChasis error
\* a faulty variant of Chasis_vinEstado_error: the failure lets the VIN through
Chasis_vinEstado_errorFailOpen(m) ==
  /\ OnChasis /\ InFlight(m) /\ m.op = "getVinEstadoChasis"
  /\ net' = Consume(net, m)
  /\ chasis' = [chasis EXCEPT !.vinState = "ok"]
  /\ UNCHANGED <<sessionStorage, localStorage, route, timers>> /\ ChasisFrame

Chasis_vinEstado_error(m) ==
  /\ OnChasis /\ InFlight(m) /\ m.op = "getVinEstadoChasis"
  /\ net' = Consume(net, m)
  /\ chasis' = [chasis EXCEPT !.vinState = "invalid"]
  /\ UNCHANGED <<sessionStorage, localStorage, route, timers>> /\ ChasisFrame

\* a faulty variant of Chasis_toggleTask: every item is flipped
Chasis_toggleTaskAll(i) ==
  /\ OnChasis /\ Chasis_formEnabled /\ i \in 1..Len(chasis.tasks)
  /\ chasis' = [chasis EXCEPT !.tasks =
                  [j \in 1..Len(@) |-> [label |-> @[j].label, done |-> ~@[j].done]]]
  /\ UNCHANGED <<net, sessionStorage, localStorage, route, timers>> /\ ChasisFrame

Chasis_toggleTask(i) ==
  /\ OnChasis /\ Chasis_formEnabled /\ i \in 1..Len(chasis.tasks)
  /\ chasis' = [chasis EXCEPT !.tasks[i].done = ~@]
  /\ UNCHANGED <<net, sessionStorage, localStorage, route, timers>> /\ ChasisFrame

Chasis_clearBastidor ==
  /\ OnChasis /\ Chasis_formEnabled
  /\ chasis' = [chasis EXCEPT !.bastidor = <<>>, !.vinState = "idle", !.pendingId = 0]
  /\ localStorage' = [localStorage EXCEPT !.CHASIS_VIN = <<>>]
  /\ UNCHANGED <<net, sessionStorage, route, timers>> /\ ChasisFrame

Chasis_clearAllButton ==
  /\ OnChasis /\ Chasis_formEnabled
  /\ chasis' = Chasis_clearAll(chasis)
  /\ localStorage' = [localStorage EXCEPT !.CHASIS_VIN = <<>>]
  /\ UNCHANGED <<net, sessionStorage, route, timers>> /\ ChasisFrame

\* continueAndClear: iniciarTarea in both cases; the subscriber of case A (a pending
\* id) is "finishA", of case B "finishB"
Chasis_continueAndClear ==
  /\ OnChasis /\ Chasis_formEnabled
  /\ Chasis_canFinish(chasis) /\ sessionStorage.userId # 0
  /\ Outstanding < MaxOutstandingChasis /\ chasis.dailyCount < MaxDailyCount
  /\ net' = Send(net, [Req("iniciarTarea", IF chasis.pendingId # 0 THEN "finishA" ELSE "finishB")
                         EXCEPT !.userId = sessionStorage.userId, !.bastidor = chasis.bastidor,
                                !.checks = checksByLabel(chasis.tasks)])
  /\ UNCHANGED <<chasis, sessionStorage, localStorage, route, timers>> /\ ChasisFrame

\* iniciarTarea next.  Case A: finalizarTarea(upsertId ?? this._pendingId!);
\* case B: finalizarTarea(newId) unless the response has no id_area
Chasis_iniciar_next(m, newId) ==
  /\ OnChasis /\ InFlight(m) /\ m.op = "iniciarTarea" /\ m.cb \in {"finishA", "finishB"}
  /\ net' = IF m.cb = "finishA"
            THEN Send(Consume(net, m),
                      [Req("finalizarTarea", "afterFinish") EXCEPT
                         !.id = IF newId # 0 THEN newId ELSE chasis.pendingId])
            ELSE IF newId = 0 THEN Consume(net, m)
            ELSE Send(Consume(net, m), [Req("finalizarTarea", "afterFinish") EXCEPT !.id = newId])
  /\ UNCHANGED <<chasis, sessionStorage, localStorage, route, timers>> /\ ChasisFrame

Chasis_flow_error(m) ==
  /\ OnChasis /\ InFlight(m) /\ m.op \in FlowOps /\ m.cb \in {"finishA", "finishB", "afterFinish"}
  /\ net' = Consume(net, m)
  /\ UNCHANGED <<chasis, sessionStorage, localStorage, route, timers>> /\ ChasisFrame

\* finalizarTarea next: afterFinish
Chasis_finalizar_next(m) ==
  /\ OnChasis /\ InFlight(m) /\ m.op = "finalizarTarea"
  /\ net' = Consume(net, m)
  /\ chasis' = Chasis_clearAll([chasis EXCEPT !.dailyCount = @ + 1])
  /\ localStorage' = [localStorage EXCEPT !.count = chasis.dailyCount + 1, !.CHASIS_VIN = <<>>]
  /\ UNCHANGED <<sessionStorage, route, timers>> /\ ChasisFrame

Chasis_tryLeave(target) ==
  /\ OnChasis /\ Chasis_formEnabled
  /\ IF Chasis_shouldPromptOnLeave(chasis)
     THEN /\ chasis' = [chasis EXCEPT !.leaveTarget = target, !.showLeaveModal = TRUE]
          /\ UNCHANGED <<sessionStorage, route>>
          /\ UNCHANGED <<net, timers>>
     ELSE Chasis_leaveNow(target)
  /\ UNCHANGED localStorage /\ ChasisFrame

\* confirmSaveAndLeave: always iniciarTarea; closeModalLeave() runs before
\* leaveNow(this._leaveTarget || 'home')
Chasis_confirmSaveAndLeave ==
  /\ OnChasis /\ chasis.showLeaveModal
  /\ IF chasis.vinState # "ok" \/ sessionStorage.userId = 0
     THEN Chasis_leaveNow(targetOrHome(Chasis_closeModal(chasis).leaveTarget))
     ELSE /\ OutstandingSaves < MaxSaves
          /\ net' = Send(net, [Req("iniciarTarea", "leave") EXCEPT
                                 !.userId = sessionStorage.userId, !.bastidor = chasis.bastidor,
                                 !.checks = checksByLabel(chasis.tasks)])
          /\ UNCHANGED <<chasis, sessionStorage, route, timers>>
  /\ UNCHANGED localStorage /\ ChasisFrame

\* the next callback of the save of confirmSaveAndLeave: closeModalLeave, clearAll,
\* then leaveNow
Chasis_leave_next(m) ==
  /\ OnChasis /\ InFlight(m) /\ m.cb = "leave"
  /\ Chasis_leaveNow(targetOrHome(Chasis_closeModal(chasis).leaveTarget))
  /\ localStorage' = [localStorage EXCEPT !.CHASIS_VIN = <<>>]
  /\ ChasisFrame

\* its error callback: closeModalLeave, then leaveNow
Chasis_leave_error(m) ==
  /\ OnChasis /\ InFlight(m) /\ m.cb = "leave"
  /\ Chasis_leaveNow(targetOrHome(Chasis_closeModal(chasis).leaveTarget))
  /\ UNCHANGED localStorage /\ ChasisFrame

Chasis_confirmLeaveWithoutSaving ==
  /\ OnChasis /\ chasis.showLeaveModal
  /\ Chasis_leaveNow(targetOrHome(Chasis_closeModal(chasis).leaveTarget))
  /\ localStorage' = [localStorage EXCEPT !.CHASIS_VIN = <<>>]
  /\ ChasisFrame

Chasis_closeModalLeave ==
  /\ OnChasis /\ chasis.showLeaveModal
  /\ chasis' = Chasis_closeModal(chasis)
  /\ UNCHANGED <<net, sessionStorage, localStorage, route, timers>> /\ ChasisFrame

\* what the operator of Chasis types into the VIN field
ChasisInputs == {<<>>, RawShort, RawA, VinB}

ChasisNext ==
  \/ Chasis_ngOnInit
  \/ \E rows \in Catalogs : Chasis_catalogo_next(rows)
  \/ Chasis_catalogo_error
  \/ \E value \in ChasisInputs : Chasis_input(value)
  \/ \E vin \in BagToSet(timers) : Chasis_timeout(vin)
  \/ \E m \in BagToSet(net) :
        \/ \E resp \in VinEstadoResps : Chasis_vinEstado_next(m, resp)
        \/ Chasis_vinEstado_error(m)
        \/ \E newId \in NewIds : Chasis_iniciar_next(m, newId)
        \/ Chasis_flow_error(m)
        \/ Chasis_finalizar_next(m)
        \/ Chasis_leave_next(m)
        \/ Chasis_leave_error(m)
  \/ \E i \in 1..2 : Chasis_toggleTask(i)
  \/ Chasis_clearBastidor
  \/ Chasis_clearAllButton
  \/ Chasis_continueAndClear
  \/ \E t \in {"home", "logout"} : Chasis_tryLeave(t)
  \/ Chasis_confirmSaveAndLeave
  \/ Chasis_confirmLeaveWithoutSaving
  \/ Chasis_closeModalLeave

(***************************************************************************)
(* Montaje                                                                 *)
(***************************************************************************)

MontajeInit ==
  [dailyCount |-> 0, colorOptions |-> <<>>, vehicleColorHex |-> <<>>,
   vehicleColorName |-> <<>>, bastidorOptions |-> <<>>, vinQuery |-> <<>>,
   selectedBastidor |-> <<>>, vinEnUso |-> FALSE, vinStatus |-> "idle", sections |-> <<>>,
   pendingSnapshot |-> NoSnapshot, showLeaveModal |-> FALSE, pendingLeaveTarget |-> "none"]

\* .filter((v, i, a) => a.indexOf(v) === i)
RECURSIVE unique(_)
unique(l) ==
  IF l = <<>> THEN <<>>
  ELSE LET r == unique(SubSeq(l, 1, Len(l) - 1))
       IN  IF \E i \in 1..Len(r) : r[i] = l[Len(l)] THEN r ELSE Append(r, l[Len(l)])

\* Montaje's isValidVin: /^[A-Z0-9]+$/.test(v.toUpperCase())
Montaje_isValidVin(v) ==
  v # <<>> /\ \A i \in 1..Len(v) : Upper(v[i]) \in 65..90 \/ Upper(v[i]) \in 48..57

\* inDbList: bastidorOptions().includes(v.toUpperCase())
Montaje_inDbList(c, v) ==
  \E i \in 1..Len(c.bastidorOptions) : c.bastidorOptions[i] = toUpperCase(v)

\* Montaje's pushColorIfMissing: appended, not sorted
Montaje_pushColorIfMissing(opts, raw) ==
  LET val == trim(raw)
      exists == \E i \in 1..Len(opts) :
                   \/ toUpperCase(opts[i].value) = toUpperCase(val)
                   \/ toLowerCase(opts[i].label) = toLowerCase(val)
  IN  IF val = <<>> \/ exists THEN opts
      ELSE Append(opts, [label |-> toLabel(val), value |-> val])

\* the color of a snapshot or of getColorPinturaPorVin, if it has one
Montaje_applyColor(c, color) ==
  LET v    == trim(color)
      opts == Montaje_pushColorIfMissing(c.colorOptions, v)
      k    == findColor(opts, v)
  IN  IF v = <<>> THEN c
      ELSE [c EXCEPT !.colorOptions = opts,
                     !.vehicleColorHex = IF k # 0 THEN opts[k].value ELSE v,
                     !.vehicleColorName = IF k # 0 THEN opts[k].label ELSE toLabel(v)]

\* applyPendingIfReady: color and checks; Montaje keeps no pending id
Montaje_applyPendingIfReady(c) ==
  IF ~c.pendingSnapshot.some \/ c.sections = <<>> THEN c
  ELSE [Montaje_applyColor(c, c.pendingSnapshot.color) EXCEPT
         !.sections = applyChecks(@, c.pendingSnapshot.checks),
         !.pendingSnapshot = NoSnapshot]

Montaje_setColor(c, value) ==
  LET k == findColor(c.colorOptions, value)
  IN  [c EXCEPT !.vehicleColorHex = value,
                !.vehicleColorName = IF k # 0 THEN c.colorOptions[k].label ELSE value]

Montaje_sectionComplete(sec) == Len(sec.tasks) > 0 /\ everyDone(sec.tasks)

Montaje_allSectionsDone(c) ==
  Len(c.sections) > 0 /\ \A i \in 1..Len(c.sections) : Montaje_sectionComplete(c.sections[i])

Montaje_canFinish(c) ==
  /\ Montaje_allSectionsDone(c)
  /\ c.vehicleColorHex # <<>>
  /\ Montaje_isValidVin(c.selectedBastidor)
  /\ Montaje_inDbList(c, c.selectedBastidor)
  /\ ~c.vinEnUso
  /\ c.vinStatus = "ok"

Montaje_isAutoFinalizable(c) ==
  /\ Montaje_allSectionsDone(c)
  /\ c.vehicleColorHex # <<>>
  /\ c.selectedBastidor # <<>>
  /\ c.vinStatus = "ok"

Montaje_shouldPromptOnLeave(c) ==
  c.vehicleColorHex # <<>> /\ c.selectedBastidor # <<>> /\ c.vinStatus = "ok"

Montaje_clearVehicle(c) ==
  [c EXCEPT !.vehicleColorHex = <<>>, !.vehicleColorName = <<>>, !.selectedBastidor = <<>>,
            !.vinQuery = <<>>, !.vinEnUso = FALSE, !.vinStatus = "idle"]

Montaje_clearAll(c) == Montaje_clearVehicle([c EXCEPT !.sections = uncheckAll(@)])

\* the next callback of finalizarTarea (confirmed or automatic), without its
\* localStorage write
Montaje_afterFinish(c) == Montaje_clearAll([c EXCEPT !.dailyCount = @ + 1])

Montaje_leaveNow(target) == Leave(target) /\ montaje' = MontajeInit

\* the leave modal covers the form, once the save of confirmSaveAndLeave has been
\* sent the operator waits for the navigation, and the operator uses the form when
\* the color list and the VIN list of the page have been loaded
Montaje_formEnabled ==
  /\ ~montaje.showLeaveModal /\ OutstandingSaves = 0
  /\ ~\E m \in BagToSet(net) : m.op \in {"getColoresPintura", "getBastidoresChasis", "forkJoin"}

\* the operator types a VIN while no finalize flow is outstanding, and until
\* MaxDailyCount vehicles have been finished
Montaje_typeEnabled ==
  Montaje_formEnabled /\ Outstanding = 0 /\ montaje.dailyCount < MaxDailyCount

\* the operator edits the checklist and the color once the lookups of the typed VIN
\* have answered
Montaje_editEnabled == Montaje_typeEnabled /\ OutstandingChecks = 0

OnMontaje == screen = "montaje" /\ route = "stage"
MontajeFrame == UNCHANGED <<screen, pintura, premontaje, chasis>>

\* ngOnInit: the counter, the three loads, autoResumeFromUserPending
Montaje_ngOnInit ==
  /\ screen = "montaje" /\ route = "opening"
  /\ route' = "stage"
  /\ montaje' = [montaje EXCEPT !.dailyCount = localStorage.count]
  /\ net' = net (+) SetToBag({Req("getColoresPintura", "cargarColoresDesdePintura"),
                              Req("getCatalogo", "cargarTareasDesdeBD"),
                              Req("getBastidoresChasis", "cargarBastidoresChasis")}
                             \cup resumeRequests)
  /\ UNCHANGED <<sessionStorage, localStorage, timers>> /\ MontajeFrame

\* getCatalogo next: sections.set(ordered); applyPendingIfReady()
Montaje_catalogo_next(rows) ==
  /\ OnMontaje /\ InFlight(Req("getCatalogo", "cargarTareasDesdeBD"))
  /\ net' = Consume(net, Req("getCatalogo", "cargarTareasDesdeBD"))
  /\ montaje' = Montaje_applyPendingIfReady(
                   [montaje EXCEPT !.sections = loadSections(rows, SecFase1)])
  /\ UNCHANGED <<sessionStorage, localStorage, route, timers>> /\ MontajeFrame

Montaje_catalogo_error ==
  /\ OnMontaje /\ InFlight(Req("getCatalogo", "cargarTareasDesdeBD"))
  /\ net' = Consume(net, Req("getCatalogo", "cargarTareasDesdeBD"))
  /\ UNCHANGED <<montaje, sessionStorage, localStorage, route, timers>> /\ MontajeFrame

\* getColoresPintura next: colorOptions.set(opts), in the order of the response
Montaje_colores_next(dbColors) ==
  /\ OnMontaje /\ InFlight(Req("getColoresPintura", "cargarColoresDesdePintura"))
  /\ net' = Consume(net, Req("getColoresPintura", "cargarColoresDesdePintura"))
  /\ montaje' = [montaje EXCEPT !.colorOptions = dedupeColors(dbColors, <<>>)]
  /\ UNCHANGED <<sessionStorage, localStorage, route, timers>> /\ MontajeFrame

Montaje_colores_error ==
  /\ OnMontaje /\ InFlight(Req("getColoresPintura", "cargarColoresDesdePintura"))
  /\ net' = Consume(net, Req("getColoresPintura", "cargarColoresDesdePintura"))
  /\ UNCHANGED <<montaje, sessionStorage, localStorage, route, timers>> /\ MontajeFrame

\* responses of GET /chasis/bastidores
BastidorLists == { <<>>, <<toLowerCase(VinA), VinA>> }

\* getBastidoresChasis next: filterAvailableInMontaje(upperUnique).  The forkJoin of
\* the availability checks is one message; forkJoin of no check never emits
Montaje_bastidores_next(list) ==
  /\ OnMontaje /\ InFlight(Req("getBastidoresChasis", "cargarBastidoresChasis"))
  /\ LET upperUnique == unique([i \in 1..Len(list) |-> toUpperCase(list[i])])
         rest == Consume(net, Req("getBastidoresChasis", "cargarBastidoresChasis"))
     IN  net' = IF upperUnique = <<>> THEN rest
                ELSE Send(rest, [Req("forkJoin", "filterAvailableInMontaje") EXCEPT
                                   !.vins = upperUnique])
  /\ UNCHANGED <<montaje, sessionStorage, localStorage, route, timers>> /\ MontajeFrame

\* refreshBastidores: cargarBastidoresChasis again (one load of the list at a time)
Montaje_refreshBastidores ==
  /\ OnMontaje /\ Montaje_editEnabled
  /\ ~\E m \in BagToSet(net) : m.op \in {"getBastidoresChasis", "forkJoin"}
  /\ net' = Send(net, Req("getBastidoresChasis", "cargarBastidoresChasis"))
  /\ UNCHANGED <<montaje, sessionStorage, localStorage, route, timers>> /\ MontajeFrame

\* getBastidoresChasis error: bastidorOptions.set([])
Montaje_bastidores_error ==
  /\ OnMontaje /\ InFlight(Req("getBastidoresChasis", "cargarBastidoresChasis"))
  /\ net' = Consume(net, Req("getBastidoresChasis", "cargarBastidoresChasis"))
  /\ montaje' = [montaje EXCEPT !.bastidorOptions = <<>>]
  /\ UNCHANGED <<sessionStorage, localStorage, route, timers>> /\ MontajeFrame

\* results.filter(r => r.avail).map(r => r.v.toUpperCase())
RECURSIVE availableOf(_, _)
availableOf(vins, avail) ==
  IF vins = <<>> THEN <<>>
  ELSE (IF Head(avail) THEN <<toUpperCase(Head(vins))>> ELSE <<>>)
       \o availableOf(Tail(vins), Tail(avail))

\* the forkJoin emits: avail[i] is the availability of m.vins[i] (false on error);
\* bastidorOptions.set(the available ones, unique)
Montaje_forkJoin_next(m, avail) ==
  /\ OnMontaje /\ InFlight(m) /\ m.op = "forkJoin"
  /\ Len(avail) = Len(m.vins)
  /\ net' = Consume(net, m)
  /\ montaje' = [montaje EXCEPT !.bastidorOptions = unique(availableOf(m.vins, avail))]
  /\ UNCHANGED <<sessionStorage, localStorage, route, timers>> /\ MontajeFrame

\* (value || '').toUpperCase().replace(/[^A-Z0-9]/g, '')
Montaje_cleanVin(value) == stripNonVinChars(toUpperCase(value))

\* onVinInput
Montaje_onVinInput(value) ==
  /\ OnMontaje /\ Montaje_typeEnabled
  /\ LET clean == Montaje_cleanVin(value)
         c     == [montaje EXCEPT !.vinQuery = clean, !.selectedBastidor = clean,
                                  !.vinEnUso = FALSE]
     IN  IF clean = <<>>
         THEN montaje' = [c EXCEPT !.vinStatus = "idle"] /\ UNCHANGED net
         ELSE IF ~Montaje_inDbList(c, clean)
         THEN montaje' = [c EXCEPT !.vinStatus = "notfound"] /\ UNCHANGED net
         ELSE /\ montaje' = [c EXCEPT !.vinStatus = "checking"]
              /\ OutstandingChecks < MaxChecksMontaje
              /\ net' = Send(net, [Req("isVinDisponibleEnMontaje", "onVinInput") EXCEPT
                                     !.bastidor = clean])
  /\ UNCHANGED <<sessionStorage, localStorage, route, timers>> /\ MontajeFrame

\* a faulty variant of Montaje_disponible_next: the color and the pending lookups are
\* sent whatever the availability is
Montaje_disponible_nextAlwaysLooksUp(m, available) ==
  /\ OnMontaje /\ InFlight(m) /\ m.op = "isVinDisponibleEnMontaje"
  /\ montaje' = [montaje EXCEPT !.vinEnUso = ~available,
                                !.vinStatus = IF available THEN "ok" ELSE "dup"]
  /\ net' = Consume(net, m)
            (+) SetToBag({[Req("getColorPinturaPorVin", "onVinInput") EXCEPT
                             !.bastidor = m.bastidor],
                          [Req("getPendiente", "onVinInput") EXCEPT
                             !.bastidor = m.bastidor, !.userId = sessionStorage.userId]})
  /\ UNCHANGED <<sessionStorage, localStorage, route, timers>> /\ MontajeFrame

\* isVinDisponibleEnMontaje next: the state, and when available the color and the
\* pending lookups of that VIN
Montaje_disponible_next(m, available) ==
  /\ OnMontaje /\ InFlight(m) /\ m.op = "isVinDisponibleEnMontaje"
  /\ montaje' = [montaje EXCEPT !.vinEnUso = ~available,
                                !.vinStatus = IF available THEN "ok" ELSE "dup"]
  /\ net' = IF available
            THEN Consume(net, m)
                 (+) SetToBag({[Req("getColorPinturaPorVin", "onVinInput") EXCEPT
                                  !.bastidor = m.bastidor],
                               [Req("getPendiente", "onVinInput") EXCEPT
                                  !.bastidor = m.bastidor, !.userId = sessionStorage.userId]})
            ELSE Consume(net, m)
  /\ UNCHANGED <<sessionStorage, localStorage, route, timers>> /\ MontajeFrame

\* a faulty variant of Montaje_disponible_error: the failure is ignored
Montaje_disponible_errorIgnored(m) ==
  /\ OnMontaje /\ InFlight(m) /\ m.op = "isVinDisponibleEnMontaje"
  /\ net' = Consume(net, m)
  /\ UNCHANGED <<montaje, sessionStorage, localStorage, route, timers>> /\ MontajeFrame

Montaje_disponible_error(m) ==
  /\ OnMontaje /\ InFlight(m) /\ m.op = "isVinDisponibleEnMontaje"
  /\ net' = Consume(net, m)
  /\ montaje' = [montaje EXCEPT !.vinEnUso = FALSE, !.vinStatus = "invalid"]
  /\ UNCHANGED <<sessionStorage, localStorage, route, timers>> /\ MontajeFrame

\* getColorPinturaPorVin next
Montaje_colorPorVin_next(m, color) ==
  /\ OnMontaje /\ InFlight(m) /\ m.op = "getColorPinturaPorVin"
  /\ net' = Consume(net, m)
  /\ montaje' = Montaje_applyColor(montaje, color)
  /\ UNCHANGED <<sessionStorage, localStorage, route, timers>> /\ MontajeFrame

\* the error callback of getColorPinturaPorVin, getPendiente or getPendientesUsuario
Montaje_lookup_error(m) ==
  /\ OnMontaje /\ InFlight(m)
  /\ m.op \in {"getColorPinturaPorVin", "getPendiente", "getPendientesUsuario"}
  /\ net' = Consume(net, m)
  /\ UNCHANGED <<montaje, sessionStorage, localStorage, route, timers>> /\ MontajeFrame

\* responses of GET /tareas/montaje/pendiente
PendienteResps ==
  {[exists |-> FALSE, id |-> 0, bastidor |-> <<>>, color |-> <<>>, checks |-> <<>>]}
  \cup {[exists |-> TRUE, id |-> 1, bastidor |-> b, color |-> c, checks |-> ck] :
          b \in {<<>>, toLowerCase(VinA)}, c \in {<<>>, RojoSpaced},
          ck \in {ChecksAll, ChecksPartial}}

\* the snapshot kept from a PendienteResp
snapshotOf(p) ==
  [some |-> TRUE, color |-> p.color, RAL |-> <<>>, checks |-> p.checks, id |-> p.id]

\* getPendiente next of onVinInput: VIN of the record, snapshot, applyPendingIfReady,
\* and finalizarTarea when isAutoFinalizable()
Montaje_pendiente_next(m, p) ==
  /\ OnMontaje /\ InFlight(m) /\ m.op = "getPendiente" /\ m.cb = "onVinInput"
  /\ LET c == IF p.bastidor # <<>>
              THEN [montaje EXCEPT !.selectedBastidor = toUpperCase(p.bastidor),
                                   !.vinQuery = toUpperCase(p.bastidor)]
              ELSE montaje
         d == Montaje_applyPendingIfReady([c EXCEPT !.pendingSnapshot = snapshotOf(p)])
     IN  IF ~p.exists THEN net' = Consume(net, m) /\ UNCHANGED montaje
         ELSE /\ montaje' = d
              /\ net' = IF Montaje_isAutoFinalizable(d) /\ p.id # 0
                        THEN Send(Consume(net, m),
                                  [Req("finalizarTarea", "autoFinalize") EXCEPT !.id = p.id])
                        ELSE Consume(net, m)
  /\ UNCHANGED <<sessionStorage, localStorage, route, timers>> /\ MontajeFrame

\* responses of GET /pendientes/{userId} seen by Montaje
MontajePendingLists ==
  { <<>>,
    <<PendingItem("montaje", 2, <<>>, <<>>, <<32>>),
      PendingItem("montaje", 1, Rojo, <<>>, <<32>> \o toLowerCase(VinA))>> }

\* items.find(p => p.area_key === 'montaje' && (p.bastidor || '').trim().length > 0)
FindMontaje(items) ==
  LET I == {i \in 1..Len(items) :
              items[i].area_key = "montaje" /\ Len(trim(items[i].bastidor)) > 0}
  IN  IF I = {} THEN PendingItem("montaje", 0, <<>>, <<>>, <<>>)
      ELSE items[CHOOSE i \in I : \A j \in I : i <= j]

\* autoResumeFromUserPending, getPendientesUsuario next
Montaje_pendientes_next(items) ==
  /\ OnMontaje /\ InFlight(Req("getPendientesUsuario", "autoResume"))
  /\ LET mine == FindMontaje(items)
         vin  == trim(toUpperCase(mine.bastidor))
         rest == Consume(net, Req("getPendientesUsuario", "autoResume"))
     IN  IF mine.id = 0 \/ vin = <<>> THEN net' = rest /\ UNCHANGED montaje
         ELSE /\ montaje' = [montaje EXCEPT
                               !.bastidorOptions =
                                  IF Montaje_inDbList(montaje, vin) THEN @
                                  ELSE unique(Append(@, vin)),
                               !.selectedBastidor = vin, !.vinQuery = vin]
              /\ net' = Send(rest, [Req("getPendiente", "autoResume") EXCEPT
                                      !.bastidor = vin, !.userId = sessionStorage.userId])
  /\ UNCHANGED <<sessionStorage, localStorage, route, timers>> /\ MontajeFrame

\* getPendiente next of autoResumeFromUserPending
Montaje_resume_next(m, p) ==
  /\ OnMontaje /\ InFlight(m) /\ m.op = "getPendiente" /\ m.cb = "autoResume"
  /\ net' = Consume(net, m)
  /\ montaje' = IF ~p.exists THEN montaje
                ELSE [Montaje_applyPendingIfReady(
                        [montaje EXCEPT !.pendingSnapshot = snapshotOf(p)])
                      EXCEPT !.vinStatus = "ok"]
  /\ UNCHANGED <<sessionStorage, localStorage, route, timers>> /\ MontajeFrame

Montaje_toggleTask(si, ti) ==
  /\ OnMontaje /\ Montaje_editEnabled
  /\ si \in 1..Len(montaje.sections) /\ ti \in 1..Len(montaje.sections[si].tasks)
  /\ montaje' = [montaje EXCEPT !.sections[si].tasks[ti].done = ~@]
  /\ UNCHANGED <<net, sessionStorage, localStorage, route, timers>> /\ MontajeFrame

Montaje_clearSection(si) ==
  /\ OnMontaje /\ Montaje_editEnabled /\ si \in 1..Len(montaje.sections)
  /\ montaje' = [montaje EXCEPT !.sections[si].tasks =
                   [j \in 1..Len(@) |-> [label |-> @[j].label, done |-> FALSE]]]
  /\ UNCHANGED <<net, sessionStorage, localStorage, route, timers>> /\ MontajeFrame

\* the color select: an option of colorOptions, or the empty option
Montaje_setColorSelect(value) ==
  /\ OnMontaje /\ Montaje_editEnabled
  /\ value = <<>> \/ \E i \in 1..Len(montaje.colorOptions) :
                        montaje.colorOptions[i].value = value
  /\ montaje' = Montaje_setColor(montaje, value)
  /\ UNCHANGED <<net, sessionStorage, localStorage, route, timers>> /\ MontajeFrame

Montaje_clearVehicleButton ==
  /\ OnMontaje /\ Montaje_editEnabled
  /\ montaje' = Montaje_clearVehicle(montaje)
  /\ UNCHANGED <<net, sessionStorage, localStorage, route, timers>> /\ MontajeFrame

Montaje_clearAllButton ==
  /\ OnMontaje /\ Montaje_editEnabled
  /\ montaje' = Montaje_clearAll(montaje)
  /\ UNCHANGED <<net, sessionStorage, localStorage, route, timers>> /\ MontajeFrame

\* the iniciarTarea of continueAndClear and of confirmSaveAndLeave
Montaje_saveRequest(c, cb) ==
  [Req("iniciarTarea", cb) EXCEPT
     !.userId = sessionStorage.userId, !.bastidor = c.selectedBastidor,
     !.color = c.vehicleColorHex, !.checks = checksByLabel(allTasks(c.sections))]

Montaje_continueAndClear ==
  /\ OnMontaje /\ Montaje_formEnabled /\ OutstandingChecks = 0
  /\ Montaje_canFinish(montaje) /\ sessionStorage.userId # 0
  /\ Outstanding < MaxOutstanding /\ montaje.dailyCount < MaxDailyCount
  /\ net' = Send(net, Montaje_saveRequest(montaje, "finish"))
  /\ UNCHANGED <<montaje, sessionStorage, localStorage, route, timers>> /\ MontajeFrame

\* iniciarTarea next: finalizarTarea(PROCESO, newId) unless the response has no id_area
Montaje_iniciar_next(m, newId) ==
  /\ OnMontaje /\ InFlight(m) /\ m.op = "iniciarTarea" /\ m.cb = "finish"
  /\ net' = IF newId = 0 THEN Consume(net, m)
            ELSE Send(Consume(net, m), [Req("finalizarTarea", "afterFinish") EXCEPT !.id = newId])
  /\ UNCHANGED <<montaje, sessionStorage, localStorage, route, timers>> /\ MontajeFrame

Montaje_flow_error(m) ==
  /\ OnMontaje /\ InFlight(m) /\ m.op \in FlowOps
  /\ m.cb \in {"finish", "afterFinish", "autoFinalize"}
  /\ net' = Consume(net, m)
  /\ UNCHANGED <<montaje, sessionStorage, localStorage, route, timers>> /\ MontajeFrame

\* finalizarTarea next, of the confirmed and of the automatic finalize
Montaje_finalizar_next(m) ==
  /\ OnMontaje /\ InFlight(m) /\ m.op = "finalizarTarea"
  /\ net' = Consume(net, m)
  /\ montaje' = Montaje_afterFinish(montaje)
  /\ localStorage' = [localStorage EXCEPT !.count = montaje.dailyCount + 1]
  /\ UNCHANGED <<sessionStorage, route, timers>> /\ MontajeFrame

Montaje_tryLeave(target) ==
  /\ OnMontaje /\ Montaje_formEnabled
  /\ IF Montaje_shouldPromptOnLeave(montaje)
     THEN /\ montaje' = [montaje EXCEPT !.pendingLeaveTarget = target, !.showLeaveModal = TRUE]
          /\ UNCHANGED <<sessionStorage, route>>
          /\ UNCHANGED <<net, timers>>
     ELSE Montaje_leaveNow(target)
  /\ UNCHANGED localStorage /\ MontajeFrame

Montaje_confirmSaveAndLeave ==
  /\ OnMontaje /\ montaje.showLeaveModal
  /\ IF ~Montaje_shouldPromptOnLeave(montaje) \/ sessionStorage.userId = 0
     THEN Montaje_leaveNow(targetOrHome(montaje.pendingLeaveTarget))
     ELSE /\ OutstandingSaves < MaxSaves
          /\ net' = Send(net, Montaje_saveRequest(montaje, "leave"))
          /\ UNCHANGED <<montaje, sessionStorage, route, timers>>
  /\ UNCHANGED localStorage /\ MontajeFrame

\* the next and the error callback of the save of confirmSaveAndLeave
Montaje_leave_done(m) ==
  /\ OnMontaje /\ InFlight(m) /\ m.cb = "leave"
  /\ Montaje_leaveNow(targetOrHome(montaje.pendingLeaveTarget))
  /\ UNCHANGED localStorage /\ MontajeFrame

Montaje_confirmLeaveWithoutSaving ==
  /\ OnMontaje /\ montaje.showLeaveModal
  /\ Montaje_leaveNow(targetOrHome(montaje.pendingLeaveTarget))
  /\ UNCHANGED localStorage /\ MontajeFrame

Montaje_cancelLeave ==
  /\ OnMontaje /\ montaje.showLeaveModal
  /\ montaje' = [montaje EXCEPT !.showLeaveModal = FALSE, !.pendingLeaveTarget = "none"]
  /\ UNCHANGED <<net, sessionStorage, localStorage, route, timers>> /\ MontajeFrame

\* what the operator of Montaje types into the VIN field
MontajeInputs == {<<>>, RawShort, RawVinA}

MontajeNext ==
  \/ Montaje_ngOnInit
  \/ \E rows \in Catalogs : Montaje_catalogo_next(rows)
  \/ Montaje_catalogo_error
  \/ \E dbColors \in ColorLists : Montaje_colores_next(dbColors)
  \/ Montaje_colores_error
  \/ \E list \in BastidorLists : Montaje_bastidores_next(list)
  \/ Montaje_bastidores_error
  \/ Montaje_refreshBastidores
  \/ \E items \in MontajePendingLists : Montaje_pendientes_next(items)
  \/ \E m \in BagToSet(net) :
        \/ \E avail \in [1..Len(m.vins) -> BOOLEAN] : Montaje_forkJoin_next(m, avail)
        \/ \E available \in BOOLEAN : Montaje_disponible_next(m, available)
        \/ Montaje_disponible_error(m)
        \/ \E color \in {<<>>, RojoSpaced} : Montaje_colorPorVin_next(m, color)
        \/ Montaje_lookup_error(m)
        \/ \E p \in PendienteResps : Montaje_pendiente_next(m, p)
        \/ \E p \in PendienteResps : Montaje_resume_next(m, p)
        \/ \E newId \in NewIds : Montaje_iniciar_next(m, newId)
        \/ Montaje_flow_error(m)
        \/ Montaje_finalizar_next(m)
        \/ Montaje_leave_done(m)
  \/ \E value \in MontajeInputs : Montaje_onVinInput(value)
  \/ \E si \in 1..2, ti \in 1..2 : Montaje_toggleTask(si, ti)
  \/ \E si \in 1..2 : Montaje_clearSection(si)
  \/ \E v \in {<<>>, Rojo} : Montaje_setColorSelect(v)
  \/ Montaje_clearVehicleButton
  \/ Montaje_clearAllButton
  \/ Montaje_continueAndClear
  \/ \E t \in {"home", "logout"} : Montaje_tryLeave(t)
  \/ Montaje_confirmSaveAndLeave
  \/ Montaje_confirmLeaveWithoutSaving
  \/ Montaje_cancelLeave

(***************************************************************************)
(* Specifications                                                          *)
(***************************************************************************)

\* the browser session in which a stage screen is opened: the component has been
\* constructed, ngOnInit has not run
InitSession ==
  /\ sessionStorage \in [token : {TRUE}, userId : UserIds]
  /\ route = "opening"
  /\ net = EmptyBag /\ timers = EmptyBag
  /\ pintura = PinturaInit /\ premontaje = PremontajeInit /\ chasis = ChasisInit
  /\ montaje = MontajeInit

InitPintura ==
  /\ InitSession /\ screen = "pintura"
  /\ localStorage = [count |-> 0, CHASIS_VIN |-> <<>>, SNAPSHOT_CHASIS |-> NoStored]

InitPremontaje ==
  /\ InitSession /\ screen = "premontaje"
  /\ localStorage = [count |-> 0, CHASIS_VIN |-> <<>>, SNAPSHOT_CHASIS |-> NoStored]

\* Pendientes may have left a snapshot for Chasis
InitChasis ==
  /\ InitSession /\ screen = "chasis"
  /\ localStorage \in [count : {0}, CHASIS_VIN : {<<>>}, SNAPSHOT_CHASIS : StoredSnapshots]

InitMontaje ==
  /\ InitSession /\ screen = "montaje"
  /\ localStorage = [count |-> 0, CHASIS_VIN |-> <<>>, SNAPSHOT_CHASIS |-> NoStored]

\* a stage screen is opened
Init == InitPintura \/ InitPremontaje \/ InitChasis \/ InitMontaje

Next == PinturaNext \/ PremontajeNext \/ ChasisNext \/ MontajeNext

Spec == Init /\ [][Next]_vars
SpecPintura == InitPintura /\ [][PinturaNext]_vars
SpecPremontaje == InitPremontaje /\ [][PremontajeNext]_vars
SpecChasis == InitChasis /\ [][ChasisNext]_vars
SpecMontaje == InitMontaje /\ [][MontajeNext]_vars

\* the response to the save of confirmSaveAndLeave is delivered: HttpClient calls next
\* or error of every subscriber
LeaveResponse ==
  \E m \in BagToSet(net) :
     \/ Pintura_leave_done(m) \/ Premontaje_leave_done(m)
     \/ Chasis_leave_next(m) \/ Chasis_leave_error(m)
     \/ Montaje_leave_done(m)

FairSpec == Spec /\ WF_vars(LeaveResponse)

\* the response to a status request of an identifier is delivered: next or error of
\* getVinEstadoChasis (Chasis) and of isVinDisponibleEnMontaje (Montaje)
StatusResponse ==
  \E m \in BagToSet(net) :
     \/ \E resp \in VinEstadoResps : Chasis_vinEstado_next(m, resp)
     \/ Chasis_vinEstado_error(m)
     \/ \E available \in BOOLEAN : Montaje_disponible_next(m, available)
     \/ Montaje_disponible_error(m)

\* every status request receives a response
FairSpecStatus == Spec /\ WF_vars(StatusResponse)

\* a re-validation timer that was set fires: setTimeout(..., 300) of a screen that
\* stays open
TimerFires == \E vin \in BagToSet(timers) : Chasis_timeout(vin)
FairSpecChasis == SpecChasis /\ WF_vars(TimerFires)

(***************************************************************************)
(* Pendientes: retomar(row), and the stage screen it navigates to           *)
(***************************************************************************)

\* the rows of the Pendientes list of user 7: two pending records of Pintura
ResumeIds == {1, 2}
PendingRow(i) == PendingItem("pintura", i, Rojo, <<>>, <<>>)

\* the responses of GET /pendientes/{userId} while both records are pending
ResumePendingLists == {<<PendingRow(1), PendingRow(2)>>, <<PendingRow(2), PendingRow(1)>>}

\* the responses of GET /tareas/pintura/{id}/snapshot to retomar: the record does not
\* exist, or its snapshot with its id
RetomarSnapshots(id) == {snap \in PinturaSnapshots(id) : snap.exists => snap.id = id}

\* no item under the key SNAPSHOT_PINTURA
NoStoredPintura == [exists |-> FALSE, id |-> 0, color |-> <<>>, RAL |-> <<>>, checks |-> <<>>]

\* the Pendientes screen of a logged-in user, its list loaded
InitRetomar ==
  /\ screen = "pendientes" /\ route = "stage"
  /\ sessionStorage = [token |-> TRUE, userId |-> 7]
  /\ localStorage = [count |-> 0, CHASIS_VIN |-> <<>>, SNAPSHOT_CHASIS |-> NoStored,
                     SNAPSHOT_PINTURA |-> NoStoredPintura]
  /\ net = EmptyBag /\ timers = EmptyBag
  /\ pintura = PinturaInit /\ premontaje = PremontajeInit /\ chasis = ChasisInit
  /\ montaje = MontajeInit

PendientesFrame == UNCHANGED <<sessionStorage, timers, pintura, premontaje, chasis, montaje>>

\* retomar(row): getSnapshot(row.area_key, row.id); one click at a time
Pendientes_retomar(row) ==
  /\ screen = "pendientes" /\ net = EmptyBag
  /\ net' = Send(net, [Req("getSnapshot", "retomar") EXCEPT !.id = row.id])
  /\ UNCHANGED <<screen, route, localStorage>> /\ PendientesFrame

\* getSnapshot next of retomar: localStorage.setItem('SNAPSHOT_PINTURA', payload) and
\* router.navigate(['/pintura']), which constructs the component of Pintura
Pendientes_snapshot_next(m, snap) ==
  /\ screen = "pendientes" /\ InFlight(m) /\ m.op = "getSnapshot" /\ m.cb = "retomar"
  /\ net' = Consume(net, m)
  /\ IF ~snap.exists THEN UNCHANGED <<screen, route, localStorage>>
     ELSE /\ localStorage' = [localStorage EXCEPT !.SNAPSHOT_PINTURA = snap]
          /\ screen' = "pintura" /\ route' = "opening"
  /\ PendientesFrame

Pendientes_snapshot_error(m) ==
  /\ screen = "pendientes" /\ InFlight(m) /\ m.op = "getSnapshot" /\ m.cb = "retomar"
  /\ net' = Consume(net, m)
  /\ UNCHANGED <<screen, route, localStorage>> /\ PendientesFrame

\* Pendientes, then what Pintura does when it opens
RetomarNext ==
  \/ \E i \in ResumeIds : Pendientes_retomar(PendingRow(i))
  \/ \E m \in BagToSet(net) :
        \/ \E snap \in RetomarSnapshots(m.id) : Pendientes_snapshot_next(m, snap)
        \/ Pendientes_snapshot_error(m)
  \/ Pintura_ngOnInit
  \/ \E rows \in Catalogs : Pintura_catalogo_next(rows)
  \/ Pintura_catalogo_error
  \/ \E items \in ResumePendingLists : Pintura_pendientes_next(items)
  \/ Pintura_pendientes_error
  \/ \E m \in BagToSet(net) :
        \/ \E snap \in PinturaSnapshots(m.id) : Pintura_snapshot_next(m, snap)
        \/ Pintura_snapshot_error(m)

SpecRetomar == InitRetomar /\ [][RetomarNext]_vars

(***************************************************************************)
(* The session: login, forced password change, route guards and logout.    *)
(* The variable screen holds the fields of LoginPageComponent,             *)
(* sessionStorage holds the token and the role of qp_user, net the login   *)
(* and changePassword requests, timers the splash timers of navegarPorRol. *)
(* The components of the stage screens are not constructed here.           *)
(***************************************************************************)

MaxLogins == 2
MaxSplash == 1

\* "1234" and "abcd"
DefaultPassword == <<49, 50, 51, 52>>
OtherPassword == <<97, 98, 99, 100>>
Passwords == {DefaultPassword, OtherPassword}

\* the routes of app.routes.ts: '' is the login, the others are guarded
AuthRoutes == {"/home", "/pendientes", "/chasis"}
AdminRoutes == {"/gestion-usuarios", "/busquedas"}
GuardedRoutes == AuthRoutes \cup AdminRoutes
Urls == {"login"} \cup GuardedRoutes

NoSession == [token |-> FALSE, role |-> "none"]

\* the fields of a new LoginPageComponent; lastUser is the role of this.lastUser
LoginInit == [showChangePassModal |-> FALSE, lastUser |-> "none"]

\* LoginResponse: status, token and user (its rol, or none)
LoginResps == [status : {"success", "error"}, token : BOOLEAN, user : {"none", "user", "admin"}]

\* a faulty variant of authGuard: every navigation passes
authGuardOpen(ss) == TRUE

\* authGuard: the token of sessionStorage
authGuard(ss) == ss.token

\* adminGuard: the token, and role admin in qp_user
adminGuard(ss) == ss.token /\ ss.role = "admin"

\* router.navigate(url) with the guards of app.routes.ts: authGuard redirects to the
\* login, adminGuard to /home, and LoginPageComponent.ngOnInit to /home with a token
resolveUrl(url, ss) ==
  IF url = "login" THEN (IF ss.token THEN "/home" ELSE "login")
  ELSE IF ~authGuard(ss) THEN "login"
  ELSE IF url \in AdminRoutes /\ ~adminGuard(ss) THEN "/home"
  ELSE url

\* the subscribers of a LoginPageComponent that is destroyed stay subscribed
orphan(m) == [m EXCEPT !.alive = FALSE]

\* the router arrives at a route: leaving the login destroys its component, arriving
\* at it constructs one
arrive(r) ==
  /\ route' = r
  /\ screen' = IF (route = "login") = (r = "login") THEN screen ELSE LoginInit
  /\ net' = IF route = "login" /\ r # "login" THEN BagOfAll(orphan, net) ELSE net

SessionFrame == UNCHANGED <<localStorage, pintura, premontaje, chasis, montaje>>

InitLogin ==
  /\ screen = LoginInit /\ route = "login"
  /\ sessionStorage = NoSession
  /\ localStorage = [count |-> 0, CHASIS_VIN |-> <<>>, SNAPSHOT_CHASIS |-> NoStored]
  /\ net = EmptyBag /\ timers = EmptyBag
  /\ pintura = PinturaInit /\ premontaje = PremontajeInit /\ chasis = ChasisInit
  /\ montaje = MontajeInit

OutstandingOp(op) == CountWhere({m \in BagToSet(net) : m.op = op})

\* onSubmit with a valid form: auth.login(email, password)
Login_onSubmit(plainPass) ==
  /\ route = "login" /\ OutstandingOp("login") < MaxLogins
  /\ net' = Send(net, [op |-> "login", cb |-> "onSubmit", plainPass |-> plainPass,
                       lastUser |-> "none", alive |-> TRUE])
  /\ UNCHANGED <<screen, sessionStorage, route, timers>> /\ SessionFrame

\* navegarPorRol: the splash, then setTimeout(..., 1600)
navegarPorRol(role) == Send(timers, role)

\* login next
Login_next(m, resp) ==
  /\ InFlight(m) /\ m.op = "login"
  /\ net' = Consume(net, m)
  /\ IF resp.status # "success" \/ ~resp.token \/ resp.user = "none"
     THEN UNCHANGED <<screen, sessionStorage, timers>>
     ELSE /\ sessionStorage' = [token |-> TRUE, role |-> resp.user]
          /\ IF m.plainPass = DefaultPassword
             THEN /\ screen' = IF m.alive
                               THEN [showChangePassModal |-> TRUE, lastUser |-> resp.user]
                               ELSE screen
                  /\ UNCHANGED timers
             ELSE /\ screen' = IF m.alive THEN [screen EXCEPT !.lastUser = resp.user]
                               ELSE screen
                  /\ BagCardinality(timers) < MaxSplash
                  /\ timers' = navegarPorRol(resp.user)
  /\ UNCHANGED route /\ SessionFrame

\* login error: the message only
Login_error(m) ==
  /\ InFlight(m) /\ m.op = "login"
  /\ net' = Consume(net, m)
  /\ UNCHANGED <<screen, sessionStorage, route, timers>> /\ SessionFrame

\* submitNewPassword with a valid form: auth.changePassword(lastUser.id, ...)
Login_submitNewPassword ==
  /\ route = "login" /\ screen.showChangePassModal /\ screen.lastUser # "none"
  /\ OutstandingOp("changePassword") = 0
  /\ net' = Send(net, [op |-> "changePassword", cb |-> "submitNewPassword",
                       plainPass |-> <<>>, lastUser |-> screen.lastUser, alive |-> TRUE])
  /\ UNCHANGED <<screen, sessionStorage, route, timers>> /\ SessionFrame

\* changePassword next: the modal closes, navegarPorRol(this.lastUser.role); a
\* component that was destroyed in between has the lastUser it had
Login_change_next(m) ==
  /\ InFlight(m) /\ m.op = "changePassword"
  /\ BagCardinality(timers) < MaxSplash
  /\ net' = Consume(net, m)
  /\ screen' = IF m.alive THEN [screen EXCEPT !.showChangePassModal = FALSE] ELSE screen
  /\ timers' = navegarPorRol(IF m.alive THEN screen.lastUser ELSE m.lastUser)
  /\ UNCHANGED <<sessionStorage, route>> /\ SessionFrame

\* changePassword error: the message only
Login_change_error(m) ==
  /\ InFlight(m) /\ m.op = "changePassword"
  /\ net' = Consume(net, m)
  /\ UNCHANGED <<screen, sessionStorage, route, timers>> /\ SessionFrame

\* cancelarCambio
Login_cancelarCambio ==
  /\ route = "login" /\ screen.showChangePassModal
  /\ screen' = [screen EXCEPT !.showChangePassModal = FALSE]
  /\ UNCHANGED <<sessionStorage, route, net, timers>> /\ SessionFrame

\* the timer of navegarPorRol fires
Login_splash_timeout(role) ==
  /\ BagIn(role, timers)
  /\ timers' = Consume(timers, role)
  /\ arrive(resolveUrl(IF role = "admin" THEN "/gestion-usuarios" ELSE "/home",
                       sessionStorage))
  /\ UNCHANGED sessionStorage /\ SessionFrame

\* a link of the application or a URL of the address bar
Router_navigate(url) ==
  /\ url # route
  /\ arrive(resolveUrl(url, sessionStorage))
  /\ UNCHANGED <<sessionStorage, timers>> /\ SessionFrame

\* logout() of the guarded screens
Session_logout ==
  /\ route \in GuardedRoutes
  /\ sessionStorage' = NoSession
  /\ arrive("login")
  /\ UNCHANGED timers /\ SessionFrame

SessionNext ==
  \/ \E plainPass \in Passwords : Login_onSubmit(plainPass)
  \/ \E m \in BagToSet(net) :
        \/ \E resp \in LoginResps : Login_next(m, resp)
        \/ Login_error(m)
        \/ Login_change_next(m)
        \/ Login_change_error(m)
  \/ Login_submitNewPassword
  \/ Login_cancelarCambio
  \/ \E role \in BagToSet(timers) : Login_splash_timeout(role)
  \/ \E url \in Urls : Router_navigate(url)
  \/ Session_logout

SpecSession == InitLogin /\ [][SessionNext]_vars

(***************************************************************************)
(* The search view (BusquedaComponent): sorting and client-side            *)
(* pagination.  The variable screen holds the fields of the component;     *)
(* rows is the number of rows of the list, which is all that pagination    *)
(* reads of it.                                                            *)
(***************************************************************************)

pageSize == 10
window == 2
MaxFetches == 2

\* the lengths of the lists that getTareasLog answers with
RowCounts == {0, 1, 10, 11, 70, 71, 95, 120}
\* the argument of goToPage: the page items, and numbers outside of them
PageInputs == -1 .. 14
SortKeys == {"fecha", "trabajador"}

BusquedaInit == [rows |-> 0, currentPage |-> 1, sortKey |-> "fecha", sortDir |-> "desc"]

maxOf(a, b) == IF a >= b THEN a ELSE b
minOf(a, b) == IF a <= b THEN a ELSE b
\* Math.ceil(a / b) of naturals
ceilDiv(a, b) == (a + b - 1) \div b

\* totalPages: Math.max(1, Math.ceil(total / pageSize))
totalPages(c) == maxOf(1, ceilDiv(c.rows, pageSize))

\* pageItems; 0 stands for the ellipsis
pageItems(c) ==
  LET total   == totalPages(c)
      current == c.currentPage
      start   == maxOf(2, current - window)
      end     == minOf(total - 1, current + window)
  IN  IF total <= 7 THEN [i \in 1..total |-> i]
      ELSE <<1>> \o (IF start > 2 THEN <<0>> ELSE <<>>)
                \o [i \in 1..maxOf(0, end - start + 1) |-> start + i - 1]
                \o (IF end < total - 1 THEN <<0>> ELSE <<>>)
                \o <<total>>

\* a faulty variant of clampPage: no upper limit
clampPageLowOnly(n, max) == maxOf(1, n)

\* Math.min(Math.max(1, n), max)
clampPage(n, max) == minOf(maxOf(1, n), max)

\* goToPage(n)
goToPage(c, n) == [c EXCEPT !.currentPage = clampPage(n, totalPages(c))]

OnBusqueda == route = "stage"
BusquedaFrame == UNCHANGED <<sessionStorage, localStorage, pintura, premontaje, chasis, montaje>>

\* the view of an administrator who is logged in
InitBusqueda ==
  /\ screen = BusquedaInit /\ route = "opening"
  /\ sessionStorage = [token |-> TRUE, userId |-> 7]
  /\ localStorage = [count |-> 0, CHASIS_VIN |-> <<>>, SNAPSHOT_CHASIS |-> NoStored]
  /\ net = EmptyBag /\ timers = EmptyBag
  /\ pintura = PinturaInit /\ premontaje = PremontajeInit /\ chasis = ChasisInit
  /\ montaje = MontajeInit

\* fetchRows: getTareasLog with the filters
fetchRows == Send(net, Req("getTareasLog", "fetchRows"))
OutstandingFetches == CountWhere({m \in BagToSet(net) : m.op = "getTareasLog"})

\* ngOnInit with a token: the subscriptions to the filters, then fetchRows()
Busqueda_ngOnInit ==
  /\ route = "opening" /\ sessionStorage.token
  /\ route' = "stage"
  /\ net' = fetchRows
  /\ UNCHANGED <<screen, timers>> /\ BusquedaFrame

\* a filter changes: reload, that is currentPage.set(1) and scheduleFetch()
Busqueda_filterChange ==
  /\ OnBusqueda
  /\ screen' = [screen EXCEPT !.currentPage = 1]
  /\ timers' = SetToBag({"fetchTimer"})
  /\ UNCHANGED <<route, net>> /\ BusquedaFrame

\* the timer of scheduleFetch fires
Busqueda_fetchTimer ==
  /\ OnBusqueda /\ BagIn("fetchTimer", timers) /\ OutstandingFetches < MaxFetches
  /\ timers' = EmptyBag
  /\ net' = fetchRows
  /\ UNCHANGED <<screen, route>> /\ BusquedaFrame

\* clearFilters: the four setValue run reload, then currentPage.set(1) and fetchRows()
Busqueda_clearFilters ==
  /\ OnBusqueda /\ OutstandingFetches < MaxFetches
  /\ screen' = [screen EXCEPT !.currentPage = 1]
  /\ timers' = SetToBag({"fetchTimer"})
  /\ net' = fetchRows
  /\ UNCHANGED route /\ BusquedaFrame

\* getTareasLog next: rows.set(mapped); currentPage.set(1)
Busqueda_fetch_next(m, n) ==
  /\ OnBusqueda /\ InFlight(m) /\ m.op = "getTareasLog"
  /\ net' = Consume(net, m)
  /\ screen' = [screen EXCEPT !.rows = n, !.currentPage = 1]
  /\ UNCHANGED <<route, timers>> /\ BusquedaFrame

Busqueda_fetch_error(m) ==
  /\ OnBusqueda /\ InFlight(m) /\ m.op = "getTareasLog"
  /\ net' = Consume(net, m)
  /\ UNCHANGED <<screen, route, timers>> /\ BusquedaFrame

\* sortBy(key)
Busqueda_sortBy(key) ==
  /\ OnBusqueda
  /\ screen' = IF screen.sortKey = key
               THEN [screen EXCEPT !.sortDir = IF @ = "asc" THEN "desc" ELSE "asc",
                                   !.currentPage = 1]
               ELSE [screen EXCEPT !.sortKey = key,
                                   !.sortDir = IF key = "fecha" THEN "desc" ELSE "asc",
                                   !.currentPage = 1]
  /\ UNCHANGED <<route, net, timers>> /\ BusquedaFrame

Busqueda_goToPage(n) ==
  /\ OnBusqueda
  /\ screen' = goToPage(screen, n)
  /\ UNCHANGED <<route, net, timers>> /\ BusquedaFrame

Busqueda_prevPage == Busqueda_goToPage(screen.currentPage - 1)
Busqueda_nextPage == Busqueda_goToPage(screen.currentPage + 1)

BusquedaNext ==
  \/ Busqueda_ngOnInit
  \/ Busqueda_filterChange
  \/ Busqueda_fetchTimer
  \/ Busqueda_clearFilters
  \/ \E m \in BagToSet(net) :
        \/ \E n \in RowCounts : Busqueda_fetch_next(m, n)
        \/ Busqueda_fetch_error(m)
  \/ \E key \in SortKeys : Busqueda_sortBy(key)
  \/ \E n \in PageInputs : Busqueda_goToPage(n)
  \/ Busqueda_prevPage
  \/ Busqueda_nextPage

SpecBusqueda == InitBusqueda /\ [][BusquedaNext]_vars

(***************************************************************************)
(* Specifications of the pure functions.  The variable screen holds the    *)
(* function that is evaluated, its argument, the value computed and the    *)
(* number of applications; no stage screen is open and the other variables *)
(* keep the values they have before one is.                                *)
(***************************************************************************)

NoScreenOpen ==
  /\ sessionStorage = [token |-> TRUE, userId |-> 0]
  /\ localStorage = [count |-> 0, CHASIS_VIN |-> <<>>, SNAPSHOT_CHASIS |-> NoStored]
  /\ route = "opening" /\ net = EmptyBag /\ timers = EmptyBag
  /\ pintura = PinturaInit /\ premontaje = PremontajeInit /\ chasis = ChasisInit
  /\ montaje = MontajeInit

PureFrame ==
  UNCHANGED <<sessionStorage, localStorage, route, net, timers,
              pintura, premontaje, chasis, montaje>>

\* sequences over S of length at most n
SeqsUpTo(S, n) == UNION {[1..k -> S] : k \in 0..n}

\* labels: 'a', 'B', '1', 'Á', 'ñ', ' ', '-' and '_', at most MaxLabelLen of them
MaxLabelLen == 3
LabelAlphabet == {97, 66, 49, 193, 241, 32, 45, 95}
LabelInputs == SeqsUpTo(LabelAlphabet, MaxLabelLen)

InitLabelToCol ==
  /\ screen \in [fn : {"labelToCol"}, arg : LabelInputs, value : {<<>>}, calls : {0}]
  /\ NoScreenOpen

\* labelToCol(label), and labelToCol of the value it returned
LabelToCol_first ==
  /\ screen.calls = 0
  /\ screen' = [screen EXCEPT !.value = labelToCol(screen.arg), !.calls = 1]
  /\ PureFrame

LabelToCol_again ==
  /\ screen.calls = 1
  /\ screen' = [screen EXCEPT !.value = labelToCol(screen.value), !.calls = 2]
  /\ PureFrame

SpecLabelToCol == InitLabelToCol /\ [][LabelToCol_first \/ LabelToCol_again]_vars

\* what is typed in a VIN field: nothing, 16 or 17 characters of a VIN, followed by
\* at most MaxVinTail of 'a', 'B', '1', '-', ' ' and 'ñ'
MaxVinTail == 2
VinTailAlphabet == {97, 66, 49, 45, 32, 241}
VinPrefixes == {<<>>, SubSeq(toLowerCase(VinA), 1, 16), VinA}
VinRawInputs == {p \o t : p \in VinPrefixes, t \in SeqsUpTo(VinTailAlphabet, MaxVinTail)}

\* the normalization of the handler fn of the two VIN screens
normalizeVin(fn, value) ==
  IF fn = "onBastidorInput" THEN cleanVin(value) ELSE Montaje_cleanVin(value)

InitCleanVin ==
  /\ screen \in [fn : {"onBastidorInput", "onVinInput"}, arg : VinRawInputs,
                 value : {<<>>}, calls : {0}]
  /\ NoScreenOpen

\* the handler stores clean, and is then given the identifier it stored
CleanVin_first ==
  /\ screen.calls = 0
  /\ screen' = [screen EXCEPT !.value = normalizeVin(screen.fn, screen.arg), !.calls = 1]
  /\ PureFrame

CleanVin_again ==
  /\ screen.calls = 1
  /\ screen' = [screen EXCEPT !.value = normalizeVin(screen.fn, screen.value), !.calls = 2]
  /\ PureFrame

SpecCleanVin == InitCleanVin /\ [][CleanVin_first \/ CleanVin_again]_vars

\* catalog responses: at most MaxRows rows; an active row has one of two labels and a
\* section field of "Fase 2", "Fase 1", " Fase 1 ", "Varios", "varios" or "  "
MaxRows == 3
SecVariosLower == toLowerCase(SecVarios)
SecPartes == <<80, 97, 114, 116, 101, 115>>
SecFase1Spaced == <<32>> \o SecFase1 \o <<32>>
CatalogRows ==
  {Row(l, sec, TRUE) : l \in {LabelMotor, LabelArbol},
                       sec \in {SecFase2, SecFase1, SecFase1Spaced, SecVarios, SecVariosLower,
                                SecBlank}}
    \cup {Row(LabelPulir, SecVarios, FALSE)}
CatalogResponses == SeqsUpTo(CatalogRows, MaxRows)

\* the default section name of the screen
defaultSection(fn) == IF fn = "pintura" THEN SecPartes ELSE SecFase1

\* the rows of a response in another order
Permuted(rows) ==
  {[i \in 1..Len(rows) |-> rows[p[i]]] :
     p \in {q \in [1..Len(rows) -> 1..Len(rows)] :
              \A i, j \in 1..Len(rows) : q[i] = q[j] => i = j}}

InitLoadSections ==
  /\ screen \in [fn : {"pintura", "premontaje"}, arg : CatalogResponses,
                 value : {<<>>}, again : {<<>>}, calls : {0}]
  /\ NoScreenOpen

\* getCatalogo next: the grouping and the sort of cargarTareasDesdeBD
LoadSections_first ==
  /\ screen.calls = 0
  /\ screen' = [screen EXCEPT !.value = loadSections(screen.arg, defaultSection(screen.fn)),
                              !.calls = 1]
  /\ PureFrame

\* the same rows arrive in another order
LoadSections_permuted ==
  /\ screen.calls = 1
  /\ \E rows \in Permuted(screen.arg) :
       screen' = [screen EXCEPT !.again = loadSections(rows, defaultSection(screen.fn)),
                                !.calls = 2]
  /\ PureFrame

SpecLoadSections == InitLoadSections /\ [][LoadSections_first \/ LoadSections_permuted]_vars

(***************************************************************************)
(* Properties                                                              *)
(***************************************************************************)

\* every item of secs is done exactly when ck holds true under its column key
DoneAsChecks(secs, ck) ==
  \A i \in 1..Len(secs) : \A j \in 1..Len(secs[i].tasks) :
    secs[i].tasks[j].done = (labelToCol(secs[i].tasks[j].label) \in DOMAIN ck
                             /\ ck[labelToCol(secs[i].tasks[j].label)])

\* the sections a catalog response gives, with the done flags left out
Labels(secs) ==
  [i \in 1..Len(secs) |->
     [name |-> secs[i].name,
      tasks |-> [j \in 1..Len(secs[i].tasks) |-> secs[i].tasks[j].label]]]

\* C1: order independence of catalog load and snapshot arrival in Pintura, Premontaje
\* and Montaje.  Whichever response is processed second, the step that processes it
\* leaves every checklist item done exactly when the snapshot's checks map holds true
\* under the item's column key: the catalog response that finds a buffered snapshot
\* (the sections are empty until then, so no toggle can come in between), and the
\* snapshot response that finds a loaded catalog.
C1_OrderIndependence ==
  [][ /\ screen = "pintura" /\ pintura.pendingSnapshot.some
           => \A rows \in Catalogs :
                Pintura_catalogo_next(rows)
                  => /\ Labels(pintura'.sections)
                          = Labels(loadSections(rows, <<80, 97, 114, 116, 101, 115>>))
                     /\ DoneAsChecks(pintura'.sections, pintura.pendingSnapshot.checks)
      /\ screen = "pintura" /\ pintura.sections # <<>>
           => \A m \in BagToSet(net) : \A snap \in PinturaSnapshots(m.id) :
                snap.exists /\ Pintura_snapshot_next(m, snap)
                  => /\ Labels(pintura'.sections) = Labels(pintura.sections)
                     /\ DoneAsChecks(pintura'.sections, snap.checks)
      /\ screen = "premontaje" /\ premontaje.pendingSnapshot.some
           => \A rows \in Catalogs :
                Premontaje_catalogo_next(rows)
                  => /\ Labels(premontaje'.sections) = Labels(loadSections(rows, SecFase1))
                     /\ DoneAsChecks(premontaje'.sections, premontaje.pendingSnapshot.checks)
      /\ screen = "premontaje" /\ premontaje.sections # <<>>
           => \A m \in BagToSet(net) : \A snap \in PremontajeSnapshots(m.id) :
                snap.exists /\ Premontaje_snapshot_next(m, snap)
                  => /\ Labels(premontaje'.sections) = Labels(premontaje.sections)
                     /\ DoneAsChecks(premontaje'.sections, snap.checks)
      /\ screen = "montaje" /\ montaje.pendingSnapshot.some
           => \A rows \in Catalogs :
                Montaje_catalogo_next(rows)
                  => /\ Labels(montaje'.sections) = Labels(loadSections(rows, SecFase1))
                     /\ DoneAsChecks(montaje'.sections, montaje.pendingSnapshot.checks)
      /\ screen = "montaje" /\ montaje.sections # <<>>
           => \A m \in BagToSet(net) : \A p \in PendienteResps :
                p.exists /\ (Montaje_pendiente_next(m, p) \/ Montaje_resume_next(m, p))
                  => /\ Labels(montaje'.sections) = Labels(montaje.sections)
                     /\ DoneAsChecks(montaje'.sections, p.checks)
    ]_vars

\* C1: Pintura has processed both responses: the snapshot of record 1 has been
\* drained into a loaded catalog, one item done and one not
C1_Witness ==
  /\ screen = "pintura" /\ route = "stage"
  /\ pintura.pendingId = 1 /\ ~pintura.pendingSnapshot.some
  /\ Len(pintura.sections) = 2
  /\ DoneAsChecks(pintura.sections, ChecksPartial)
  /\ ~InFlight(Req("getCatalogo", "cargarTareasDesdeBD"))
  /\ ~\E m \in BagToSet(net) : m.op \in {"getPendientesUsuario", "getSnapshot"}

\* C2: when the checks of a pending record arrive before the catalog has loaded, the
\* catalog response that drains the buffered snapshot leaves the active pending id
\* equal to the id of that record, in Pintura, in Premontaje and in Chasis (where the
\* checks come from a stored snapshot or from a 'pending' status response).
C2_PendingIdAfterDrain ==
  [][ /\ screen = "pintura" /\ pintura.pendingSnapshot.some
           => \A rows \in Catalogs :
                Pintura_catalogo_next(rows) /\ ~pintura'.pendingSnapshot.some
                  => pintura'.pendingId \in RecordIds
      /\ screen = "premontaje" /\ premontaje.pendingSnapshot.some
           => \A rows \in Catalogs :
                Premontaje_catalogo_next(rows) /\ ~premontaje'.pendingSnapshot.some
                  => premontaje'.pendingId \in RecordIds
      /\ screen = "chasis" /\ chasis.buffered.some
           => \A rows \in Catalogs :
                Chasis_catalogo_next(rows) /\ ~chasis'.buffered.some
                  => chasis'.pendingId \in RecordIds
    ]_vars

\* C2: Chasis has drained the checks of a 'pending' status response that came before
\* the catalog: the checklist shows them, and no pending id is active
C2_Witness ==
  /\ screen = "chasis" /\ route = "stage"
  /\ ~chasis.buffered.some /\ Len(chasis.tasks) = 2
  /\ chasis.tasks[1].done /\ chasis.bastidor = VinA
  /\ chasis.vinState = "ok" /\ chasis.pendingId = 0
  /\ BagIn(VinA, timers) /\ localStorage.SNAPSHOT_CHASIS = NoStored
  /\ ~InFlight(Req("getCatalogo", "cargarTareasDesdeBD"))

\* C3: in Chasis, once vinState is 'finalized' it stays 'finalized', and canFinish
\* stays false, through operator toggles, through the completion of the catalog load
\* (with flushBufferedIfAny) and through the re-validation timer of the displayed VIN.
C3_FinalizedStays ==
  [][ screen = "chasis" /\ chasis.vinState = "finalized"
      /\ (\/ \E i \in 1..2 : Chasis_toggleTask(i)
          \/ \E rows \in Catalogs : Chasis_catalogo_next(rows)
          \/ \E vin \in BagToSet(timers) : vin = chasis.bastidor /\ Chasis_timeout(vin))
      => chasis'.vinState = "finalized" /\ ~Chasis_canFinish(chasis')
    ]_vars

\* C3: the status query of the displayed VIN has returned 'finalized' while the
\* catalog load is outstanding and a snapshot waits in the buffer
C3_Witness ==
  /\ screen = "chasis" /\ route = "stage"
  /\ chasis.vinState = "finalized" /\ chasis.bastidor = VinA
  /\ chasis.buffered.some /\ chasis.buffered.vin = VinA
  /\ InFlight(Req("getCatalogo", "cargarTareasDesdeBD"))

\* C4: a status or pending-lookup response for identifier A that is delivered after
\* the operator has changed the displayed identifier to another one is not applied:
\* the identifier state, the checklist, the auxiliary color and the active pending id
\* are unchanged.  Chasis: the response of getVinEstadoChasis.  Montaje: the responses
\* of isVinDisponibleEnMontaje, getColorPinturaPorVin and getPendiente of onVinInput,
\* and of getPendiente of autoResumeFromUserPending.
C4_StaleResponseIgnored ==
  [][ /\ screen = "chasis" /\ isValidVin(chasis.bastidor)
           => \A m \in BagToSet(net) : \A resp \in VinEstadoResps :
                m.bastidor # chasis.bastidor /\ Chasis_vinEstado_next(m, resp)
                  => /\ chasis'.vinState = chasis.vinState
                     /\ chasis'.tasks = chasis.tasks
                     /\ chasis'.pendingId = chasis.pendingId
      /\ screen = "montaje" /\ montaje.selectedBastidor # <<>>
           => \A m \in BagToSet(net) :
                /\ m.bastidor # montaje.selectedBastidor
                /\ \/ \E available \in BOOLEAN : Montaje_disponible_next(m, available)
                   \/ \E color \in {<<>>, RojoSpaced} : Montaje_colorPorVin_next(m, color)
                   \/ \E p \in PendienteResps : Montaje_pendiente_next(m, p)
                   \/ \E p \in PendienteResps : Montaje_resume_next(m, p)
                => /\ montaje'.vinStatus = montaje.vinStatus
                   /\ montaje'.vinEnUso = montaje.vinEnUso
                   /\ montaje'.selectedBastidor = montaje.selectedBastidor
                   /\ montaje'.sections = montaje.sections
                   /\ montaje'.vehicleColorHex = montaje.vehicleColorHex
                   /\ montaje'.vehicleColorName = montaje.vehicleColorName
    ]_vars

\* C4: Chasis displays VinB while the status query of VinA is still outstanding
C4_Witness ==
  /\ screen = "chasis" /\ route = "stage"
  /\ chasis.bastidor = VinB
  /\ \E m \in BagToSet(net) : m.op = "getVinEstadoChasis" /\ m.bastidor = VinA


\* a finalizarTarea request for the record id is sent by the step
SendsFinalize(id) ==
  \E r \in BagToSet(net') :
    r.op = "finalizarTarea" /\ r.id = id /\ CopiesIn(r, net') > CopiesIn(r, net)

\* C5: Montaje auto-finalize.  Whenever a step applies a pending snapshot to the
\* checklist and the resulting state is ready (all sections complete, color set, VIN
\* selected, VIN state ok), the step sends finalizarTarea for the id of that record,
\* whether the step is a pending-lookup response that finds the catalog loaded or the
\* catalog response that drains a buffered snapshot; and the success of that request
\* clears the state.
C5_AutoFinalize ==
  [][ screen = "montaje"
        => /\ montaje.sections # <<>>
                => \A m \in BagToSet(net) : \A p \in PendienteResps :
                     /\ p.exists
                     /\ Montaje_pendiente_next(m, p) \/ Montaje_resume_next(m, p)
                     /\ Montaje_isAutoFinalizable(montaje')
                     => SendsFinalize(p.id)
           /\ montaje.pendingSnapshot.some
                => \A rows \in Catalogs :
                     /\ Montaje_catalogo_next(rows)
                     /\ ~montaje'.pendingSnapshot.some
                     /\ Montaje_isAutoFinalizable(montaje')
                     => SendsFinalize(montaje.pendingSnapshot.id)
           /\ \A m \in BagToSet(net) :
                m.cb = "autoFinalize" /\ Montaje_finalizar_next(m)
                  => /\ montaje'.sections = uncheckAll(montaje.sections)
                     /\ montaje'.vehicleColorHex = <<>> /\ montaje'.selectedBastidor = <<>>
                     /\ montaje'.vinStatus = "idle"
    ]_vars

\* C5: the snapshot of a fully checked pending record with a color waits in the
\* buffer for the catalog, its VIN selected and the VIN state ok
C5_Witness ==
  /\ screen = "montaje" /\ route = "stage"
  /\ montaje.pendingSnapshot.some /\ montaje.pendingSnapshot.checks = ChecksAll
  /\ trim(montaje.pendingSnapshot.color) # <<>>
  /\ montaje.selectedBastidor = VinA /\ montaje.vinStatus = "ok"
  /\ InFlight(Req("getCatalogo", "cargarTareasDesdeBD"))

\* the request r is sent by the step
Sent(r) == CopiesIn(r, net') > CopiesIn(r, net)

\* the step sends no finalizarTarea request
NoFinalizeSent == \A r \in BagToSet(net') : r.op = "finalizarTarea" => ~Sent(r)

\* C6: confirmed finalize with an active pending id.  continueAndClear sends an update
\* of that id that carries the current checklist and auxiliary state, and no finalize;
\* the success of the update sends finalizarTarea for the id the update was sent to,
\* whatever has happened between the request and its response.  Pintura and Premontaje
\* send actualizarTarea; Chasis sends its update as iniciarTarea.
C6_UpdateThenFinalize ==
  [][ /\ screen = "pintura"
           => /\ pintura.pendingId # 0 /\ Pintura_continueAndClear
                   => /\ \E r \in BagToSet(net') :
                           /\ Sent(r) /\ r.op = "actualizarTarea" /\ r.id = pintura.pendingId
                           /\ r.patch = checksPatch(allTasks(pintura.sections))
                           /\ r.color = trim(pintura.colorDescripcion)
                           /\ r.RAL = trim(pintura.colorRAL)
                      /\ NoFinalizeSent
              /\ \A m \in BagToSet(net) : Pintura_actualizar_next(m) => SendsFinalize(m.id)
      /\ screen = "premontaje"
           => /\ premontaje.pendingId # 0 /\ Premontaje_continueAndClear
                   => /\ \E r \in BagToSet(net') :
                           /\ Sent(r) /\ r.op = "actualizarTarea" /\ r.id = premontaje.pendingId
                           /\ r.patch = checksPatch(allTasks(premontaje.sections))
                           /\ r.color = premontaje.vehicleColorHex
                      /\ NoFinalizeSent
              /\ \A m \in BagToSet(net) : Premontaje_actualizar_next(m) => SendsFinalize(m.id)
      /\ screen = "chasis"
           => /\ chasis.pendingId # 0 /\ Chasis_continueAndClear
                   => /\ \E r \in BagToSet(net') :
                           /\ Sent(r) /\ r.id = chasis.pendingId
                           /\ r.checks = checksByLabel(chasis.tasks)
                      /\ NoFinalizeSent
              /\ \A m \in BagToSet(net) : \A newId \in NewIds :
                   m.cb = "finishA" /\ Chasis_iniciar_next(m, newId) => SendsFinalize(m.id)
    ]_vars

\* C6: Pintura has sent the update of pending record 1 and, before its response, the
\* checklist has been cleared: no pending id is active
C6_Witness ==
  /\ screen = "pintura" /\ route = "stage"
  /\ pintura.pendingId = 0
  /\ \E m \in BagToSet(net) : m.op = "actualizarTarea" /\ m.cb = "finish" /\ m.id \in RecordIds

\* finalizarTarea is sent by the step for the record id, and for no other id
OnlyFinalizeSent(id) ==
  /\ SendsFinalize(id)
  /\ \A r \in BagToSet(net') : r.op = "finalizarTarea" /\ Sent(r) => r.id = id

\* C7: confirmed finalize with no active pending id.  continueAndClear sends
\* iniciarTarea and no finalizarTarea; the success of iniciarTarea sends finalizarTarea
\* for the id_area of the response and for no other id; when the response has no
\* id_area, no finalizarTarea is sent, the counter is not incremented and the
\* checklist is not reset; and a failed iniciarTarea sends no finalizarTarea.
C7_StartThenFinalize ==
  [][ /\ screen = "pintura"
           => /\ pintura.pendingId = 0 /\ Pintura_continueAndClear
                   => /\ \E r \in BagToSet(net') : Sent(r) /\ r.op = "iniciarTarea"
                      /\ NoFinalizeSent
              /\ \A m \in BagToSet(net) :
                   /\ \A newId \in NewIds :
                        Pintura_iniciar_next(m, newId)
                          => IF newId # 0 THEN OnlyFinalizeSent(newId)
                             ELSE /\ NoFinalizeSent
                                  /\ pintura'.dailyCount = pintura.dailyCount
                                  /\ localStorage'.count = localStorage.count
                                  /\ pintura'.sections = pintura.sections
                   /\ m.op = "iniciarTarea" /\ Pintura_flow_error(m) => NoFinalizeSent
      /\ screen = "premontaje"
           => /\ premontaje.pendingId = 0 /\ Premontaje_continueAndClear
                   => /\ \E r \in BagToSet(net') : Sent(r) /\ r.op = "iniciarTarea"
                      /\ NoFinalizeSent
              /\ \A m \in BagToSet(net) :
                   /\ \A newId \in NewIds :
                        Premontaje_iniciar_next(m, newId)
                          => IF newId # 0 THEN OnlyFinalizeSent(newId)
                             ELSE /\ NoFinalizeSent
                                  /\ premontaje'.dailyCount = premontaje.dailyCount
                                  /\ localStorage'.count = localStorage.count
                                  /\ premontaje'.sections = premontaje.sections
                   /\ m.op = "iniciarTarea" /\ Premontaje_flow_error(m) => NoFinalizeSent
      /\ screen = "chasis"
           => /\ chasis.pendingId = 0 /\ Chasis_continueAndClear
                   => /\ \E r \in BagToSet(net') : Sent(r) /\ r.op = "iniciarTarea"
                      /\ NoFinalizeSent
              /\ \A m \in BagToSet(net) :
                   /\ \A newId \in NewIds :
                        m.cb = "finishB" /\ Chasis_iniciar_next(m, newId)
                          => IF newId # 0 THEN OnlyFinalizeSent(newId)
                             ELSE /\ NoFinalizeSent
                                  /\ chasis'.dailyCount = chasis.dailyCount
                                  /\ localStorage'.count = localStorage.count
                                  /\ chasis'.tasks = chasis.tasks
                   /\ m.cb = "finishB" /\ Chasis_flow_error(m) => NoFinalizeSent
      /\ screen = "montaje"
           => /\ Montaje_continueAndClear
                   => /\ \E r \in BagToSet(net') : Sent(r) /\ r.op = "iniciarTarea"
                      /\ NoFinalizeSent
              /\ \A m \in BagToSet(net) :
                   /\ \A newId \in NewIds :
                        Montaje_iniciar_next(m, newId)
                          => IF newId # 0 THEN OnlyFinalizeSent(newId)
                             ELSE /\ NoFinalizeSent
                                  /\ montaje'.dailyCount = montaje.dailyCount
                                  /\ localStorage'.count = localStorage.count
                                  /\ montaje'.sections = montaje.sections
                   /\ m.op = "iniciarTarea" /\ Montaje_flow_error(m) => NoFinalizeSent
    ]_vars

\* C7: in Pintura, with no pending id, iniciarTarea has answered with id_area 3 and
\* the finalizarTarea of that id is outstanding; the checklist is still complete
C7_Witness ==
  /\ screen = "pintura" /\ route = "stage"
  /\ pintura.pendingId = 0 /\ pintura.dailyCount = 0 /\ Pintura_allComplete(pintura)
  /\ \E m \in BagToSet(net) : m.op = "finalizarTarea" /\ m.cb = "afterFinish" /\ m.id = 3
  /\ ~\E m \in BagToSet(net) : m.op = "iniciarTarea"

\* every item of the checklist after the step is an item of the checklist before it,
\* unchecked
Unchecked(before, after) ==
  /\ Len(after) = Len(before)
  /\ \A i \in 1..Len(after) : after[i].label = before[i].label /\ ~after[i].done

\* C8: after a successful finalizarTarea response, in each stage screen, the daily
\* counter is one higher than before, every checklist item is unchecked, the auxiliary
\* fields and the identifier are empty, the identifier state is idle (Chasis and
\* Montaje) and the active pending id is null (Pintura, Premontaje and Chasis).
C8_AfterFinalize ==
  [][ /\ screen = "pintura"
           => \A m \in BagToSet(net) :
                Pintura_finalizar_next(m)
                  => /\ pintura'.dailyCount = pintura.dailyCount + 1
                     /\ Unchecked(allTasks(pintura.sections), allTasks(pintura'.sections))
                     /\ pintura'.colorDescripcion = <<>> /\ pintura'.colorRAL = <<>>
                     /\ pintura'.pendingId = 0
      /\ screen = "premontaje"
           => \A m \in BagToSet(net) :
                Premontaje_finalizar_next(m)
                  => /\ premontaje'.dailyCount = premontaje.dailyCount + 1
                     /\ Unchecked(allTasks(premontaje.sections), allTasks(premontaje'.sections))
                     /\ premontaje'.vehicleColorHex = <<>> /\ premontaje'.vehicleColorName = <<>>
                     /\ premontaje'.pendingId = 0
      /\ screen = "chasis"
           => \A m \in BagToSet(net) :
                Chasis_finalizar_next(m)
                  => /\ chasis'.dailyCount = chasis.dailyCount + 1
                     /\ Unchecked(chasis.tasks, chasis'.tasks)
                     /\ chasis'.bastidor = <<>> /\ chasis'.vinState = "idle"
                     /\ chasis'.pendingId = 0
      /\ screen = "montaje"
           => \A m \in BagToSet(net) :
                Montaje_finalizar_next(m)
                  => /\ montaje'.dailyCount = montaje.dailyCount + 1
                     /\ Unchecked(allTasks(montaje.sections), allTasks(montaje'.sections))
                     /\ montaje'.vehicleColorHex = <<>> /\ montaje'.vehicleColorName = <<>>
                     /\ montaje'.selectedBastidor = <<>> /\ montaje'.vinQuery = <<>>
                     /\ montaje'.vinStatus = "idle"
    ]_vars

\* C8: Pintura has finished the vehicle of pending record 1: the counter is 1 and
\* stored, the loaded checklist is unchecked and no request is outstanding
C8_Witness ==
  /\ screen = "pintura" /\ route = "stage"
  /\ pintura.dailyCount = 1 /\ localStorage.count = 1
  /\ pintura.sections # <<>> /\ ~someDone(allTasks(pintura.sections))
  /\ pintura.colorDescripcion = <<>> /\ pintura.pendingId = 0
  /\ net = EmptyBag

\* C9: when the iniciarTarea, actualizarTarea or finalizarTarea request of a confirmed
\* finalize flow fails, the fields of the screen (checklist, auxiliary fields,
\* identifier and its state, active pending id, daily counter) and the stored counter
\* are as they were before the failure.
C9_FailureKeepsState ==
  [][ /\ screen = "pintura"
           => \A m \in BagToSet(net) :
                Pintura_flow_error(m) => pintura' = pintura /\ localStorage' = localStorage
      /\ screen = "premontaje"
           => \A m \in BagToSet(net) :
                Premontaje_flow_error(m)
                  => premontaje' = premontaje /\ localStorage' = localStorage
      /\ screen = "chasis"
           => \A m \in BagToSet(net) :
                Chasis_flow_error(m) => chasis' = chasis /\ localStorage' = localStorage
      /\ screen = "montaje"
           => \A m \in BagToSet(net) :
                m.cb \in {"finish", "afterFinish"} /\ Montaje_flow_error(m)
                  => montaje' = montaje /\ localStorage' = localStorage
    ]_vars

\* C9: in Pintura the update of pending record 1 has succeeded and the finalizarTarea
\* of the flow is outstanding, with the checklist complete and the colors filled in
C9_Witness ==
  /\ screen = "pintura" /\ route = "stage"
  /\ pintura.pendingId \in RecordIds /\ Pintura_allComplete(pintura)
  /\ pintura.colorDescripcion # <<>> /\ pintura.dailyCount = 0
  /\ \E m \in BagToSet(net) :
        m.op = "finalizarTarea" /\ m.cb = "afterFinish" /\ m.id = pintura.pendingId

\* C10: Chasis, the status response of a syntactically valid VIN: 'finalized' sets the
\* state to finalized; 'pending' leaves every loaded checklist item done exactly when
\* the record's checks hold true under its column key, retains the record's id as the
\* active pending id and sets the state to ok; any other successful response ('free')
\* sets the state to ok with no active pending id.
C10_StatusResponse ==
  [][ screen = "chasis"
        => \A m \in BagToSet(net) : \A resp \in VinEstadoResps :
             isValidVin(m.bastidor) /\ Chasis_vinEstado_next(m, resp)
               => /\ resp.status = "finalized" => chasis'.vinState = "finalized"
                  /\ resp.status = "pending"
                       => /\ Len(chasis'.tasks) = Len(chasis.tasks)
                          /\ \A i \in 1..Len(chasis'.tasks) :
                               chasis'.tasks[i].done
                                 = (labelToCol(chasis'.tasks[i].label) \in DOMAIN resp.checks
                                    /\ resp.checks[labelToCol(chasis'.tasks[i].label)])
                          /\ chasis'.pendingId = resp.id
                          /\ chasis'.vinState = "ok"
                  /\ resp.status = "free"
                       => chasis'.vinState = "ok" /\ chasis'.pendingId = 0
    ]_vars

\* C10: the only status query outstanding is that of the displayed VIN, and a pending
\* id is active again although onBastidorInput cleared it when it sent the query
C10_Witness ==
  /\ screen = "chasis" /\ route = "stage"
  /\ chasis.pendingId # 0 /\ chasis.bastidor = VinA
  /\ OutstandingChecks = 1
  /\ \E m \in BagToSet(net) : m.op = "getVinEstadoChasis" /\ m.bastidor = VinA

\* C11: fail-closed status check.  When the status query of the displayed identifier
\* fails (getVinEstadoChasis in Chasis, isVinDisponibleEnMontaje in Montaje), the
\* identifier state becomes invalid, canFinish is false, and the checklist and the
\* active pending id are as they were before the failure.
C11_FailClosed ==
  [][ /\ screen = "chasis"
           => \A m \in BagToSet(net) :
                m.bastidor = chasis.bastidor /\ Chasis_vinEstado_error(m)
                  => /\ chasis'.vinState = "invalid" /\ ~Chasis_canFinish(chasis')
                     /\ chasis'.tasks = chasis.tasks
                     /\ chasis'.pendingId = chasis.pendingId
      /\ screen = "montaje"
           => \A m \in BagToSet(net) :
                m.bastidor = montaje.selectedBastidor /\ Montaje_disponible_error(m)
                  => /\ montaje'.vinStatus = "invalid" /\ ~Montaje_canFinish(montaje')
                     /\ montaje'.sections = montaje.sections
    ]_vars

\* C11: Chasis displays a syntactically valid VIN in state invalid, which only the
\* failure of its status query gives, and the checklist has a checked item
C11_Witness ==
  /\ screen = "chasis" /\ route = "stage"
  /\ isValidVin(chasis.bastidor) /\ chasis.vinState = "invalid"
  /\ someDone(chasis.tasks)
  /\ ~\E m \in BagToSet(net) : m.op = "getVinEstadoChasis"

\* C12: no status query is issued for an identifier that fails the validity predicate
\* of the stage.  Every getVinEstadoChasis that a step sends is for the displayed VIN,
\* which is exactly 17 characters of [A-Z0-9]; onBastidorInput with an empty
\* normalized VIN gives idle, with any other invalid one gives invalid, and sends
\* nothing.  Every isVinDisponibleEnMontaje that a step sends is for a non-empty VIN
\* that is in bastidorOptions.
C12_NoQueryForInvalid ==
  [][ /\ \A r \in BagToSet(net') :
             Sent(r) /\ r.op = "getVinEstadoChasis"
               => /\ r.bastidor = chasis'.bastidor
                  /\ Len(r.bastidor) = VinLength
                  /\ \A i \in 1..Len(r.bastidor) :
                        r.bastidor[i] \in 65..90 \/ r.bastidor[i] \in 48..57
      /\ (/\ screen = "chasis"
          /\ \/ \E value \in ChasisInputs : Chasis_input(value)
             \/ \E vin \in BagToSet(timers) : Chasis_timeout(vin))
                => /\ chasis'.bastidor = <<>>
                        => chasis'.vinState = "idle" /\ net' = net
                   /\ chasis'.bastidor # <<>> /\ Len(chasis'.bastidor) # VinLength
                        => chasis'.vinState = "invalid" /\ net' = net
      /\ \A r \in BagToSet(net') :
             Sent(r) /\ r.op = "isVinDisponibleEnMontaje"
               => /\ r.bastidor # <<>>
                  /\ \E i \in 1..Len(montaje.bastidorOptions) :
                        montaje.bastidorOptions[i] = r.bastidor
    ]_vars

\* C12: the operator of Chasis has typed "ab-1": the displayed VIN is "AB1", the
\* state is invalid and no status query is outstanding
C12_Witness ==
  /\ screen = "chasis" /\ route = "stage"
  /\ chasis.bastidor = cleanVin(RawShort) /\ chasis.vinState = "invalid"
  /\ ~\E m \in BagToSet(net) : m.op = "getVinEstadoChasis"

\* C13: Montaje identifier outcomes.  onVinInput with a non-empty normalized VIN that
\* is not in bastidorOptions gives state notfound and sends nothing; an availability
\* response "not available" gives state dup with vinEnUso true and sends no color or
\* pending lookup; and in a state notfound or dup canFinish is false.
C13_NotFoundAndDup ==
  [][ screen = "montaje"
        => /\ \A value \in MontajeInputs :
                /\ Montaje_onVinInput(value)
                /\ montaje'.selectedBastidor # <<>>
                /\ ~\E i \in 1..Len(montaje.bastidorOptions) :
                       montaje.bastidorOptions[i] = montaje'.selectedBastidor
                => montaje'.vinStatus = "notfound" /\ net' = net
           /\ \A m \in BagToSet(net) :
                Montaje_disponible_next(m, FALSE)
                  => /\ montaje'.vinStatus = "dup" /\ montaje'.vinEnUso
                     /\ \A r \in BagToSet(net') : ~Sent(r)
           /\ montaje'.vinStatus \in {"notfound", "dup"} => ~Montaje_canFinish(montaje')
    ]_vars

\* C13: the availability query of Montaje has answered "not available" while the
\* checklist is complete and the color is set
C13_Witness ==
  /\ screen = "montaje" /\ route = "stage"
  /\ montaje.vinStatus = "dup" /\ montaje.vinEnUso
  /\ Montaje_allSectionsDone(montaje) /\ montaje.vehicleColorHex # <<>>
  /\ ~\E m \in BagToSet(net) : m.op \in {"getPendiente", "getColorPinturaPorVin"}

\* the catalog is complete: at least one section, and every item of every section checked
CatalogComplete(sections) ==
  /\ Len(sections) > 0
  /\ \A i \in 1..Len(sections) : \A j \in 1..Len(sections[i].tasks) : sections[i].tasks[j].done

\* a field is filled when it holds something else than blanks
Filled(field) == trim(field) # <<>>

C14_Pintura ==
  screen = "pintura" =>
    (Pintura_allComplete(pintura) <=>
       /\ CatalogComplete(pintura.sections)
       /\ Filled(pintura.colorDescripcion) /\ Filled(pintura.colorRAL))

C14_Premontaje ==
  screen = "premontaje" =>
    (Premontaje_allComplete(premontaje) <=>
       CatalogComplete(premontaje.sections) /\ Filled(premontaje.vehicleColorHex))

C14_Chasis ==
  screen = "chasis" =>
    (Chasis_canFinish(chasis) <=>
       /\ Len(chasis.tasks) > 0 /\ \A i \in 1..Len(chasis.tasks) : chasis.tasks[i].done
       /\ chasis.vinState = "ok")

C14_Montaje ==
  screen = "montaje" =>
    (Montaje_canFinish(montaje) <=>
       /\ CatalogComplete(montaje.sections)
       /\ montaje.vinStatus = "ok"
       /\ Filled(montaje.vehicleColorHex))

\* C14: in every state of each stage screen the readiness predicate is true exactly
\* when the catalog is complete, the identifier state is ok (Chasis, Montaje) and
\* every auxiliary field (the color fields) is filled.
C14_ReadinessIff == C14_Pintura /\ C14_Premontaje /\ C14_Chasis /\ C14_Montaje

\* the checklist is empty, or a section has no item, or an item is unchecked
Incomplete(sections) ==
  \/ Len(sections) = 0
  \/ \E i \in 1..Len(sections) :
        \/ Len(sections[i].tasks) = 0
        \/ \E j \in 1..Len(sections[i].tasks) : ~sections[i].tasks[j].done

\* C15: in every state of every stage screen the readiness predicate is false when
\* the checklist is empty, a section has no item or an item is unchecked, whatever
\* the identifier state and the color fields are.
C15_IncompleteNotReady ==
  /\ screen = "pintura" /\ Incomplete(pintura.sections) => ~Pintura_allComplete(pintura)
  /\ screen = "premontaje" /\ Incomplete(premontaje.sections)
        => ~Premontaje_allComplete(premontaje)
  /\ screen = "chasis"
       /\ (Len(chasis.tasks) = 0 \/ \E i \in 1..Len(chasis.tasks) : ~chasis.tasks[i].done)
        => ~Chasis_canFinish(chasis)
  /\ screen = "montaje" /\ Incomplete(montaje.sections) => ~Montaje_canFinish(montaje)

\* C15: Chasis shows a valid, free VIN while its checklist is empty
C15_Witness ==
  /\ screen = "chasis" /\ route = "stage"
  /\ chasis.vinState = "ok" /\ Len(chasis.tasks) = 0

\* the leave modal of the screen shown is open
LeaveModalOpen ==
  /\ route = "stage"
  /\ CASE screen = "pintura" -> pintura.showLeaveModal
       [] screen = "premontaje" -> premontaje.showLeaveModal
       [] screen = "chasis" -> chasis.showLeaveModal
       [] screen = "montaje" -> montaje.showLeaveModal

\* the target tryLeave stored when it opened the modal
LeaveTarget ==
  CASE screen = "pintura" -> pintura.pendingLeaveTarget
    [] screen = "premontaje" -> premontaje.pendingLeaveTarget
    [] screen = "chasis" -> chasis.leaveTarget
    [] screen = "montaje" -> montaje.pendingLeaveTarget

ConfirmSaveAndLeave ==
  \/ Pintura_confirmSaveAndLeave \/ Premontaje_confirmSaveAndLeave
  \/ Chasis_confirmSaveAndLeave \/ Montaje_confirmSaveAndLeave

\* the save of confirmSaveAndLeave is in flight for target t
LeaveSaving(t) ==
  LeaveModalOpen /\ LeaveTarget = t /\ \E m \in BagToSet(net) : m.cb = "leave"

\* the application has navigated to target t
Arrived(t) == route = leaveRoute(t) /\ (t = "logout" => ~sessionStorage.token)

\* C16: once tryLeave has opened the leave modal with a target, confirmSaveAndLeave
\* navigates to that target: at once when it sends no save, and eventually, after the
\* save has succeeded or failed, when it sends one; logout removes the session token.
C16_LeaveReachesTarget ==
  /\ [][ \A t \in {"home", "logout"} :
           LeaveModalOpen /\ LeaveTarget = t /\ ConfirmSaveAndLeave /\ route' # "stage"
             => Arrived(t)' ]_vars
  /\ \A t \in {"home", "logout"} : LeaveSaving(t) ~> Arrived(t)

\* the active pending id of the screen shown; Montaje keeps none
ActivePendingId ==
  CASE screen = "pintura" -> pintura.pendingId
    [] screen = "premontaje" -> premontaje.pendingId
    [] screen = "chasis" -> chasis.pendingId
    [] screen = "montaje" -> 0

\* C17 for the steps of one screen
C17_Of(confirm) ==
  confirm =>
    \A r \in BagToSet(net') :
      Sent(r) => IF ActivePendingId # 0
                 THEN r.op = "actualizarTarea" /\ r.id = ActivePendingId
                 ELSE r.op = "iniciarTarea"

\* C17: leave-and-save never finalizes.  confirmSaveAndLeave sends no finalizarTarea;
\* what it sends is an update of the active pending id when there is one and a start
\* otherwise; and the response to that save sends nothing.
C17_LeaveNeverFinalizes ==
  [][ /\ ConfirmSaveAndLeave \/ LeaveResponse => NoFinalizeSent
      /\ C17_Of(Pintura_confirmSaveAndLeave) /\ C17_Of(Premontaje_confirmSaveAndLeave)
      /\ C17_Of(Chasis_confirmSaveAndLeave) /\ C17_Of(Montaje_confirmSaveAndLeave)
      /\ LeaveResponse => \A r \in BagToSet(net') : ~Sent(r) ]_vars

\* no item of the checklist is checked
NoneDone(sections) ==
  \A i \in 1..Len(sections) : \A j \in 1..Len(sections[i].tasks) : ~sections[i].tasks[j].done

\* C18: applyPendingIfReady changes nothing when no snapshot is buffered or when the
\* checklist is empty.  A catalog load that ends with no snapshot buffered or with an
\* empty checklist leaves the items it loaded unchecked and changes nothing but the
\* checklist; Premontaje's color-list load changes nothing but the color options; and
\* a snapshot that arrives while the checklist is empty is put in the buffer and
\* nothing else changes.
C18_DrainNoOp ==
  [][ /\ \A rows \in Catalogs :
           /\ Pintura_catalogo_next(rows)
           /\ ~pintura.pendingSnapshot.some \/ pintura'.sections = <<>>
           => /\ pintura' = [pintura EXCEPT !.sections = pintura'.sections]
              /\ NoneDone(pintura'.sections)
      /\ \A rows \in Catalogs :
           /\ Premontaje_catalogo_next(rows)
           /\ ~premontaje.pendingSnapshot.some \/ premontaje'.sections = <<>>
           => /\ premontaje' = [premontaje EXCEPT !.sections = premontaje'.sections]
              /\ NoneDone(premontaje'.sections)
      /\ \A rows \in Catalogs :
           /\ Montaje_catalogo_next(rows)
           /\ ~montaje.pendingSnapshot.some \/ montaje'.sections = <<>>
           => /\ montaje' = [montaje EXCEPT !.sections = montaje'.sections]
              /\ NoneDone(montaje'.sections)
      /\ \A dbColors \in ColorLists :
           /\ Premontaje_colores_next(dbColors)
           /\ ~premontaje.pendingSnapshot.some \/ premontaje.sections = <<>>
           => premontaje' = [premontaje EXCEPT !.colorOptions = premontaje'.colorOptions]
      /\ \A m \in BagToSet(net) : \A snap \in PinturaSnapshots(m.id) :
           Pintura_snapshot_next(m, snap) /\ snap.exists /\ pintura.sections = <<>>
           => /\ pintura'.pendingSnapshot.some
              /\ pintura'.pendingSnapshot.checks = snap.checks
              /\ pintura' = [pintura EXCEPT !.pendingSnapshot = pintura'.pendingSnapshot]
      /\ \A m \in BagToSet(net) : \A snap \in PremontajeSnapshots(m.id) :
           Premontaje_snapshot_next(m, snap) /\ snap.exists /\ premontaje.sections = <<>>
           => /\ premontaje'.pendingSnapshot.some
              /\ premontaje'.pendingSnapshot.checks = snap.checks
              /\ premontaje' = [premontaje EXCEPT
                                  !.pendingSnapshot = premontaje'.pendingSnapshot]
    ]_vars

\* C18: in Pintura a snapshot has arrived before the catalog and waits in the buffer
C18_Witness ==
  /\ screen = "pintura" /\ route = "stage"
  /\ pintura.pendingSnapshot.some /\ pintura.pendingSnapshot.checks # <<>>
  /\ pintura.sections = <<>> /\ pintura.pendingId = 0
  /\ ~\E m \in BagToSet(net) : m.op = "getSnapshot"

\* C19: a buffered snapshot is applied at most once.  After every step, a screen whose
\* checklist is loaded has an empty buffer (a drain that applies clears it), so a later
\* drain finds nothing: Premontaje's color-list load, when the checklist is loaded,
\* changes nothing but the color options and keeps the operator's toggles.  The
\* buffer is one slot: a snapshot that arrives is applied at once and the buffer left
\* empty when the checklist is loaded, and otherwise takes the place of whatever the
\* buffer held.
C19_AppliedOnce ==
  [][ /\ pintura'.sections # <<>> => ~pintura'.pendingSnapshot.some
      /\ premontaje'.sections # <<>> => ~premontaje'.pendingSnapshot.some
      /\ montaje'.sections # <<>> => ~montaje'.pendingSnapshot.some
      /\ \A dbColors \in ColorLists :
           Premontaje_colores_next(dbColors) /\ premontaje.sections # <<>>
           => premontaje' = [premontaje EXCEPT !.colorOptions = premontaje'.colorOptions]
      /\ \A m \in BagToSet(net) : \A snap \in PinturaSnapshots(m.id) :
           Pintura_snapshot_next(m, snap) /\ snap.exists
           => IF pintura.sections = <<>>
              THEN pintura'.pendingSnapshot.checks = snap.checks
              ELSE /\ pintura'.sections = applyChecks(pintura.sections, snap.checks)
                   /\ pintura'.pendingId # 0
      /\ \A m \in BagToSet(net) : \A snap \in PremontajeSnapshots(m.id) :
           Premontaje_snapshot_next(m, snap) /\ snap.exists
           => IF premontaje.sections = <<>>
              THEN premontaje'.pendingSnapshot.checks = snap.checks
              ELSE /\ premontaje'.sections = applyChecks(premontaje.sections, snap.checks)
                   /\ premontaje'.pendingId # 0
      /\ \A m \in BagToSet(net) : \A p \in PendienteResps :
           (Montaje_resume_next(m, p) \/ Montaje_pendiente_next(m, p)) /\ p.exists
           => IF montaje.sections = <<>>
              THEN montaje'.pendingSnapshot = snapshotOf(p)
              ELSE montaje'.sections = applyChecks(montaje.sections, p.checks)
    ]_vars

\* C19: in Premontaje the snapshot of record 1 has been applied, the color list has
\* been loaded after it, and the checklist differs from the snapshot's checks
C19_Witness ==
  /\ screen = "premontaje" /\ route = "stage"
  /\ premontaje.pendingId # 0 /\ ~premontaje.pendingSnapshot.some
  /\ premontaje.sections # <<>> /\ premontaje.colorOptions # <<>>
  /\ ~\E m \in BagToSet(net) : m.op \in {"getColoresPintura", "getSnapshot", "getCatalogo"}
  /\ \A ck \in ChecksMaps : premontaje.sections # applyChecks(premontaje.sections, ck)

\* every check of a checks object, or of a patch, is set
AllChecked(ck) == \A k \in DOMAIN ck : ck[k] = TRUE
AllOnes(patch) == \A k \in DOMAIN patch : patch[k] = 1

\* m is the start or update request of a confirmed finalize flow
FinishSave(m) ==
  m.op \in {"iniciarTarea", "actualizarTarea"} /\ m.cb \in {"finish", "finishA", "finishB"}

\* the step delivers the response to m
Answered(m) == CopiesIn(m, net') < CopiesIn(m, net)

\* C20: every finalizarTarea request that is sent is for a record whose last saved
\* checks are all set: it answers an update with an all-set patch and carries the id
\* the update was sent to, or it answers a start with all-set checks and carries the
\* id of the saved record, or it is Montaje's auto-finalize for the record of a snapshot
\* whose checks are all set, with the VIN state ok.  And a confirmed flow starts only
\* while the identifier state is ok.
C20_FinalizeOnlyComplete ==
  [][ /\ \A r \in BagToSet(net') :
           Sent(r) /\ r.op = "finalizarTarea"
           => \/ \E m \in BagToSet(net) :
                   /\ Answered(m) /\ FinishSave(m)
                   /\ \/ m.op = "actualizarTarea" /\ AllOnes(m.patch) /\ r.id = m.id
                      \/ m.op = "iniciarTarea" /\ AllChecked(m.checks) /\ r.id # 0
              \/ \E m \in BagToSet(net) : \E p \in PendienteResps :
                   /\ Montaje_pendiente_next(m, p) /\ p.exists
                   /\ r.id = p.id /\ p.id # 0 /\ AllChecked(p.checks)
                   /\ montaje'.vinStatus = "ok"
      /\ \A r \in BagToSet(net') :
           Sent(r) /\ FinishSave(r)
           => /\ screen = "chasis" => chasis.vinState = "ok"
              /\ screen = "montaje" => montaje.vinStatus = "ok"
    ]_vars

\* the labels of the checklist of the screen shown
ChecklistLabels ==
  LET ts == CASE screen = "pintura" -> allTasks(pintura.sections)
              [] screen = "premontaje" -> allTasks(premontaje.sections)
              [] screen = "chasis" -> chasis.tasks
              [] screen = "montaje" -> allTasks(montaje.sections)
  IN  {ts[i].label : i \in 1..Len(ts)}

\* C21: every checks mapping that is sent, the checks of iniciarTarea and the patch of
\* actualizarTarea, in the finalize and in the leave flows, has as keys the column
\* keys labelToCol(label) of the labels of the checklist, never the raw labels.
C21_ChecksKeyedByColumn ==
  [][ \A r \in BagToSet(net') :
        Sent(r) /\ r.op \in {"iniciarTarea", "actualizarTarea"}
        => /\ DOMAIN r.checks \subseteq {labelToCol(l) : l \in ChecklistLabels}
           /\ DOMAIN r.patch \subseteq {labelToCol(l) : l \in ChecklistLabels} ]_vars

\* the confirm button of the finish modal
ContinueAndClear ==
  \/ Pintura_continueAndClear \/ Premontaje_continueAndClear
  \/ Chasis_continueAndClear \/ Montaje_continueAndClear

\* C22: without a session user id continueAndClear has no effect: no step of a stage
\* screen is a step of continueAndClear, and no step sends the start or update of a
\* confirmed flow or the finalize that follows it; and no step sends a request of
\* autoResumeFromUserPending.
C22_NoUserNoRequests ==
  [][ sessionStorage.userId = 0
        => /\ ~ContinueAndClear
           /\ \A r \in BagToSet(net') :
                Sent(r) => /\ ~FinishSave(r)
                           /\ r.cb \notin {"afterFinish", "autoResume"} ]_vars

\* C22: Pintura is ready to finalize, nobody is logged in and nothing is in flight
C22_Witness ==
  /\ screen = "pintura" /\ route = "stage" /\ sessionStorage.userId = 0
  /\ Pintura_allComplete(pintura) /\ net = EmptyBag

VinNormalized(fn, raw, v) ==
  /\ \A i \in 1..Len(v) : v[i] \in 65..90 \/ v[i] \in 48..57
  /\ Len(v) <= VinLength
  /\ v = normalizeVin(fn, raw)
  /\ normalizeVin(fn, v) = v

\* C24: the normalization of the two VIN input handlers (Chasis onBastidorInput,
\* Montaje onVinInput) yields for every raw input an identifier of [A-Z0-9] only, of
\* length at most 17, that normalizes to itself
C24_VinNormalized ==
  screen.calls >= 1 => VinNormalized(screen.fn, screen.arg, screen.value)

\* C24 for the handler of Chasis alone
C24_ChasisNormalized ==
  screen.calls >= 1 /\ screen.fn = "onBastidorInput"
    => VinNormalized(screen.fn, screen.arg, screen.value)

\* C24 for Montaje without the bound on the length
C24_MontajeCharsAndFixedPoint ==
  screen.calls >= 1 /\ screen.fn = "onVinInput"
    => /\ \A i \in 1..Len(screen.value) :
            screen.value[i] \in 65..90 \/ screen.value[i] \in 48..57
       /\ normalizeVin(screen.fn, screen.value) = screen.value

\* "WVWZZZ1JZXW000001B1" is what onVinInput keeps of "WVWZZZ1JZXW000001B1"
C24_Witness ==
  /\ screen.calls = 2 /\ screen.fn = "onVinInput"
  /\ screen.arg = VinA \o <<66, 49>>
  /\ Len(screen.value) = 19

SectionNames(secs) == [i \in 1..Len(secs) |-> secs[i].name]

\* numbered sections by ascending number, the sections without a number after them
OrderedByFase(secs) ==
  \A i, j \in 1..Len(secs) :
    i < j => LET fi == faseNum(secs[i].name)
                 fj == faseNum(secs[j].name)
             IN  /\ ~fj.inf => ~fi.inf /\ fi.n <= fj.n

\* C25: after a catalog load the sections are in ascending order of the phase number
\* of their name, the sections without a number come after the numbered ones, and
\* the order of the sections is the same for every order of the rows of the response
C25_SectionOrder ==
  /\ screen.calls >= 1 => OrderedByFase(screen.value)
  /\ screen.calls = 2 => SectionNames(screen.again) = SectionNames(screen.value)

\* C25, the order by phase number alone
C25_OrderedByFase ==
  /\ screen.calls >= 1 => OrderedByFase(screen.value)
  /\ screen.calls = 2 => OrderedByFase(screen.again)

\* C25, the independence of the row order when no two section names are equal up to
\* case and accents
C25_OrderOfDistinctNames ==
  screen.calls = 2
  /\ (\A i, j \in 1..Len(screen.value) :
        i # j => localeCompare(screen.value[i].name, screen.value[j].name) # 0)
    => SectionNames(screen.again) = SectionNames(screen.value)

\* "Fase 2", "Fase 1", "Varios" gives "Fase 1", "Fase 2", "Varios"
C25_Witness ==
  /\ screen.calls = 2
  /\ [i \in 1..Len(screen.arg) |-> screen.arg[i].seccion] = <<SecFase2, SecFase1, SecVarios>>
  /\ SectionNames(screen.value) = <<SecFase1, SecFase2, SecVarios>>
  /\ SectionNames(screen.again) = <<SecFase1, SecFase2, SecVarios>>

\* the section a row goes to: its trimmed section field, or the default name
SectionOfRow(r, def) == IF trim(r.seccion) = <<>> THEN def ELSE trim(r.seccion)

ChosenId == localStorage.SNAPSHOT_PINTURA.id

\* C27: after retomar(row) has stored the snapshot and opened the stage screen, the
\* record that the screen asks for, buffers and keeps as active pending id is the
\* record row.id, also when the user has two pending records of that stage
C27_ResumesChosenRecord ==
  screen = "pintura"
    => /\ pintura.pendingId \in {0, ChosenId}
       /\ pintura.pendingSnapshot.some => pintura.pendingSnapshot.id = ChosenId
       /\ \A m \in BagToSet(net) : m.op = "getSnapshot" => m.id = ChosenId

\* record 2 was chosen and Pintura has resumed record 2
C27_Witness ==
  /\ screen = "pintura" /\ route = "stage"
  /\ ChosenId = 2 /\ pintura.pendingId = 2
  /\ Len(pintura.sections) = 2 /\ net = EmptyBag

\* C28: one confirmation finalizes one record: while a flow started by
\* continueAndClear has a start, update or finalize request outstanding, a further
\* continueAndClear sends nothing, and no two finalize requests of one record id are
\* outstanding together
C28_OneConfirmationOneFlow ==
  [][ /\ Outstanding > 0 /\ ContinueAndClear => net' = net
      /\ \A r \in BagToSet(net') :
           r.op = "finalizarTarea" /\ r.id # 0 => CopiesIn(r, net') <= 1 ]_vars

\* two flows of Pintura for the pending record 1 are outstanding
C28_Witness ==
  /\ screen = "pintura" /\ route = "stage" /\ pintura.pendingId = 1
  /\ Outstanding = 2
  /\ \A m \in BagToSet(net) : m.op \in FlowOps => m.id = 1

\* a response of the load of the VIN list: the availability checks, or the error of
\* getBastidoresChasis
ListLoadResponse ==
  \/ Montaje_bastidores_error
  \/ \E m \in BagToSet(net) : \E avail \in [1..Len(m.vins) -> BOOLEAN] :
        Montaje_forkJoin_next(m, avail)

\* the selected VIN is an option of the VIN list
SelectedInOptions(c) == Montaje_inDbList(c, c.selectedBastidor)

\* C29: in Montaje the VIN that auto-resume selected is an option of the VIN list when
\* auto-resume sets the VIN state to ok, and a response of the load of the VIN list
\* that comes while the state is ok leaves it an option
C29_ResumedVinStaysOption ==
  [][ /\ \A m \in BagToSet(net), p \in PendienteResps :
           Montaje_resume_next(m, p) /\ p.exists => SelectedInOptions(montaje')
      /\ screen = "montaje" /\ montaje.vinStatus = "ok" /\ SelectedInOptions(montaje)
         /\ ListLoadResponse
           => SelectedInOptions(montaje') ]_vars

\* C29, the first part alone: the state ok that auto-resume sets
C29_OkWhenResumed ==
  [][ \A m \in BagToSet(net), p \in PendienteResps :
        Montaje_resume_next(m, p) /\ p.exists => SelectedInOptions(montaje') ]_vars

\* auto-resume has set the state ok after the list load: the VIN is an option
C29_Witness ==
  /\ screen = "montaje" /\ route = "stage"
  /\ montaje.vinStatus = "ok" /\ montaje.selectedBastidor = VinA
  /\ SelectedInOptions(montaje)
  /\ ~\E m \in BagToSet(net) : m.op \in {"getBastidoresChasis", "forkJoin", "getPendiente",
                                          "getPendientesUsuario"}

\* the step delivers a getPendiente response of an existing record p, of onVinInput
\* or of auto-resume, and its snapshot is applied (the checklist is loaded)
PendingRecordApplied(p) ==
  /\ p.exists /\ p.id # 0
  /\ \E m \in BagToSet(net) : Montaje_pendiente_next(m, p) \/ Montaje_resume_next(m, p)
  /\ montaje'.sections # <<>> /\ ~montaje'.pendingSnapshot.some

\* C30: in Montaje, once the snapshot of a pending record found for the VIN has been
\* applied, the request that continueAndClear and confirmSaveAndLeave send for that
\* VIN is not a start of a new record but targets the id of the pending record
C30_PendingRecordTargeted ==
  [][ \A p \in PendienteResps :
        PendingRecordApplied(p)
          => \A cb \in {"finish", "leave"} :
               LET r == Montaje_saveRequest(montaje', cb)
               IN  r.op # "iniciarTarea" /\ r.id = p.id ]_vars

\* what Montaje does instead: every request that continueAndClear and
\* confirmSaveAndLeave send is an iniciarTarea without a record id
C30_MontajeAlwaysStarts ==
  [][ screen = "montaje"
        => \A r \in BagToSet(net') :
             Sent(r) /\ r.cb \in {"finish", "leave"} => r.op = "iniciarTarea" /\ r.id = 0 ]_vars

\* the pending record of VinA was found and the operator has confirmed the finish
C30_Witness ==
  /\ screen = "montaje" /\ route = "stage"
  /\ montaje.selectedBastidor = VinA /\ montaje.vinStatus = "ok"
  /\ \E m \in BagToSet(net) : m.op = "iniciarTarea" /\ m.cb = "finish" /\ m.bastidor = VinA

\* every task of ts is done exactly when ck holds true under its column key
TasksAsChecks(ts, ck) ==
  \A i \in 1..Len(ts) : ts[i].done = Truthy(ck, labelToCol(ts[i].label))

\* C31: a snapshot that is applied to a loaded checklist rewrites every item from the
\* snapshot alone: after the step each done flag is the snapshot's value under the
\* column key of the item, whatever the flag was before, and an item whose key the
\* snapshot does not have is unchecked (Pintura, Premontaje and Montaje from the
\* snapshot response, Chasis from the 'pending' status response)
C31_SnapshotOverwrites ==
  [][ /\ \A m \in BagToSet(net) : \A snap \in PinturaSnapshots(m.id) :
           snap.exists /\ pintura.sections # <<>> /\ Pintura_snapshot_next(m, snap)
             => TasksAsChecks(allTasks(pintura'.sections), snap.checks)
      /\ \A m \in BagToSet(net) : \A snap \in PremontajeSnapshots(m.id) :
           snap.exists /\ premontaje.sections # <<>> /\ Premontaje_snapshot_next(m, snap)
             => TasksAsChecks(allTasks(premontaje'.sections), snap.checks)
      /\ \A m \in BagToSet(net) : \A p \in PendienteResps :
           /\ p.exists /\ montaje.sections # <<>>
           /\ Montaje_pendiente_next(m, p) \/ Montaje_resume_next(m, p)
           => TasksAsChecks(allTasks(montaje'.sections), p.checks)
      /\ \A m \in BagToSet(net) : \A resp \in VinEstadoResps :
           /\ resp.status = "pending" /\ chasis.tasks # <<>>
           /\ Chasis_vinEstado_next(m, resp)
           => /\ TasksAsChecks(chasis'.tasks, resp.checks)
              /\ \A i \in 1..Len(chasis'.tasks) :
                   labelToCol(chasis'.tasks[i].label) \notin DOMAIN resp.checks
                     => ~chasis'.tasks[i].done ]_vars

\* Chasis has applied the checks of a 'pending' status response that has no key for
\* "Motor-1": "Motor-1" is unchecked and "Árbol" is checked
C31_Witness ==
  /\ screen = "chasis" /\ route = "stage"
  /\ chasis.pendingId = 1 /\ chasis.vinState = "ok" /\ ~chasis.buffered.some
  /\ Len(chasis.tasks) = 2
  /\ TasksAsChecks(chasis.tasks, ChecksSparse)
  /\ \E i \in 1..2 : chasis.tasks[i].done
  /\ \E i \in 1..2 : ~chasis.tasks[i].done
  /\ net = EmptyBag /\ timers = EmptyBag

\* the identifier state of the screen shown (Chasis, Montaje)
IdentifierState ==
  CASE screen = "chasis" -> chasis.vinState
    [] screen = "montaje" -> montaje.vinStatus
    [] OTHER -> "none"

Checking == route = "stage" /\ IdentifierState = "checking"

\* a status request of an identifier is outstanding
StatusOutstanding ==
  \E m \in BagToSet(net) : m.op \in {"getVinEstadoChasis", "isVinDisponibleEnMontaje"}

\* C32: in Chasis and Montaje the identifier state is checking only while a status
\* request is outstanding; a response that is delivered while the state is checking
\* leaves it ok, finalized, dup or invalid; and, every status request being answered,
\* the state checking is eventually left
C32_CheckingEnds ==
  /\ [](Checking => StatusOutstanding)
  /\ [][ Checking /\ StatusResponse
           => IdentifierState' \in {"ok", "finalized", "dup", "invalid"} ]_vars
  /\ Checking ~> ~Checking

\* Montaje has been answered that the typed VIN is in use: the state is dup and no
\* status request is outstanding
C32_Witness ==
  /\ screen = "montaje" /\ route = "stage"
  /\ montaje.vinStatus = "dup" /\ montaje.vinEnUso /\ montaje.vinQuery = VinA
  /\ ~StatusOutstanding

\* the daily counter of the stage screen that is shown
DailyCount ==
  CASE screen = "pintura" -> pintura.dailyCount
    [] screen = "premontaje" -> premontaje.dailyCount
    [] screen = "chasis" -> chasis.dailyCount
    [] screen = "montaje" -> montaje.dailyCount
    [] OTHER -> 0

\* the step is the success callback of a finalizarTarea request
FinalizeSuccess ==
  \E m \in BagToSet(net) :
     \/ Pintura_finalizar_next(m) \/ Premontaje_finalizar_next(m)
     \/ Chasis_finalizar_next(m) \/ Montaje_finalizar_next(m)

\* C33: the daily counter of a stage screen.  Entering the screen loads the stored
\* count; afterwards a step changes the counter only when it is the success callback
\* of a finalizarTarea request, which adds exactly one and stores the new value under
\* the count key; no other step of the screen changes the counter or the stored
\* count, so the counter is the loaded value plus the number of successes processed.
C33_CounterCountsFinalizes ==
  [][ /\ route = "opening" /\ route' = "stage" => DailyCount' = localStorage.count
      /\ route = "stage" /\ route' = "stage"
           => IF FinalizeSuccess
              THEN /\ DailyCount' = DailyCount + 1
                   /\ localStorage'.count = DailyCount'
              ELSE /\ DailyCount' = DailyCount
                   /\ localStorage'.count = localStorage.count
    ]_vars

\* C33: Montaje has processed one successful finalizarTarea response: the counter and
\* the stored count are one above the loaded value and the form is cleared
C33_Witness ==
  /\ screen = "montaje" /\ route = "stage"
  /\ montaje.dailyCount = 1 /\ localStorage.count = 1
  /\ montaje.vinQuery = <<>> /\ montaje.sections # <<>>
  /\ net = EmptyBag

\* the VIN of the snapshot that Chasis finds in localStorage, as consumeSnapshotIfAny
\* reads it
SnapshotVin == trim(toUpperCase(localStorage.SNAPSHOT_CHASIS.bastidor))

\* a re-validation timer is set for a well-formed VIN
ValidTimerSet == \E vin \in BagToSet(timers) : isValidVin(cleanVin(vin))

\* a getVinEstadoChasis request for the shown VIN is outstanding
Revalidating ==
  /\ chasis.vinState = "checking"
  /\ \E m \in BagToSet(net) : m.op = "getVinEstadoChasis" /\ m.bastidor = chasis.bastidor

ShouldPromptOnLeave ==
  CASE screen = "pintura" -> Pintura_colorInputsComplete(pintura)
    [] screen = "premontaje" -> Premontaje_validColor(premontaje)
    [] screen = "chasis" -> Chasis_shouldPromptOnLeave(chasis)
    [] screen = "montaje" -> Montaje_shouldPromptOnLeave(montaje)

TryLeave(t) ==
  \/ Pintura_tryLeave(t) \/ Premontaje_tryLeave(t) \/ Chasis_tryLeave(t) \/ Montaje_tryLeave(t)

CancelLeave ==
  \/ Pintura_cancelLeave \/ Premontaje_cancelLeave \/ Chasis_closeModalLeave
  \/ Montaje_cancelLeave

ConfirmLeaveWithoutSaving ==
  \/ Pintura_confirmLeaveWithoutSaving \/ Premontaje_confirmLeaveWithoutSaving
  \/ Chasis_confirmLeaveWithoutSaving \/ Montaje_confirmLeaveWithoutSaving

\* the step changes nothing of the screen shown but the leave modal and its target
SameForm ==
  CASE screen = "pintura" ->
         [pintura' EXCEPT !.showLeaveModal = pintura.showLeaveModal,
                          !.pendingLeaveTarget = pintura.pendingLeaveTarget] = pintura
    [] screen = "premontaje" ->
         [premontaje' EXCEPT !.showLeaveModal = premontaje.showLeaveModal,
                             !.pendingLeaveTarget = premontaje.pendingLeaveTarget] = premontaje
    [] screen = "chasis" ->
         [chasis' EXCEPT !.showLeaveModal = chasis.showLeaveModal,
                         !.leaveTarget = chasis.leaveTarget] = chasis
    [] screen = "montaje" ->
         [montaje' EXCEPT !.showLeaveModal = montaje.showLeaveModal,
                          !.pendingLeaveTarget = montaje.pendingLeaveTarget] = montaje

\* the step sends no request
NoRequestSent == \A r \in BagToSet(net') : ~Sent(r)

\* C35: leaving a stage screen.  tryLeave(target) navigates to the target at once and
\* sends no request when shouldPromptOnLeave is false, and otherwise opens the leave
\* modal for that target, stays on the screen and changes nothing else; cancelLeave
\* closes the modal, stays on the screen and changes neither the checklist, the
\* auxiliary fields, the identifier nor the pending id; confirmLeaveWithoutSaving
\* sends no request and navigates to the target that tryLeave stored.
C35_LeaveHandlers ==
  [][ \A t \in {"home", "logout"} :
        /\ TryLeave(t)
             => IF ShouldPromptOnLeave
                THEN /\ route' = "stage" /\ LeaveModalOpen' /\ LeaveTarget' = t
                     /\ SameForm /\ NoRequestSent /\ sessionStorage' = sessionStorage
                ELSE Arrived(t)' /\ NoRequestSent
        /\ CancelLeave
             => /\ route' = "stage" /\ ~LeaveModalOpen' /\ SameForm
                /\ sessionStorage' = sessionStorage
        /\ LeaveModalOpen /\ LeaveTarget = t /\ ConfirmLeaveWithoutSaving
             => Arrived(t)' /\ NoRequestSent
    ]_vars

\* C35: what the handlers do.  As C35_LeaveHandlers, but confirmLeaveWithoutSaving of
\* Chasis navigates to /home and keeps the session whatever target tryLeave stored.
C35_ChasisLeavesHome ==
  [][ \A t \in {"home", "logout"} :
        /\ TryLeave(t)
             => IF ShouldPromptOnLeave
                THEN /\ route' = "stage" /\ LeaveModalOpen' /\ LeaveTarget' = t
                     /\ SameForm /\ NoRequestSent /\ sessionStorage' = sessionStorage
                ELSE Arrived(t)' /\ NoRequestSent
        /\ CancelLeave
             => /\ route' = "stage" /\ ~LeaveModalOpen' /\ SameForm
                /\ sessionStorage' = sessionStorage
        /\ LeaveModalOpen /\ LeaveTarget = t /\ ConfirmLeaveWithoutSaving
             => /\ NoRequestSent
                /\ IF screen = "chasis"
                   THEN route' = "/home" /\ sessionStorage' = sessionStorage
                   ELSE Arrived(t)'
    ]_vars

\* C35: Chasis shows the leave modal that tryLeave opened for logout, with a usable
\* VIN and progress, and no request is outstanding
C35_Witness ==
  /\ OnChasis /\ chasis.showLeaveModal /\ chasis.leaveTarget = "logout"
  /\ sessionStorage.token /\ chasis.vinState = "ok" /\ someDone(chasis.tasks)
  /\ net = EmptyBag

\* the step activates the route url
Activates(url) == route # url /\ route' = url

\* the step processes a login response with status success, a token and a user
LoginSucceeds ==
  \E m \in BagToSet(net) : \E resp \in LoginResps :
     /\ Login_next(m, resp)
     /\ resp.status = "success" /\ resp.token /\ resp.user # "none"

\* a user who is logged in and is no admin
adminRefused == sessionStorage.token /\ sessionStorage.role # "admin"

DefaultLoginSucceeds ==
  \E m \in BagToSet(net) : \E resp \in LoginResps :
     /\ Login_next(m, resp) /\ m.plainPass = DefaultPassword
     /\ resp.status = "success" /\ resp.token /\ resp.user # "none"

\* the same, in the login component that is shown
DefaultLoginShown ==
  \E m \in BagToSet(net) : \E resp \in LoginResps :
     /\ Login_next(m, resp) /\ m.plainPass = DefaultPassword /\ m.alive
     /\ resp.status = "success" /\ resp.token /\ resp.user # "none"

\* the step processes the success of changePassword
ChangeSucceeds == \E m \in BagToSet(net) : Login_change_next(m)

\* C37: forced password change.  The successful login with the default password
\* opens the change modal, starts no navigation by role and leaves no token with
\* which a guarded route could be activated; while the modal is shown no token is
\* stored; and cancelarCambio leaves the login shown with no token stored.
C37_NoSessionBeforeChange ==
  /\ [](route = "login" /\ screen.showChangePassModal => ~authGuard(sessionStorage))
  /\ [][ /\ DefaultLoginSucceeds => timers' = timers /\ ~authGuard(sessionStorage')
         /\ DefaultLoginShown => screen'.showChangePassModal
         /\ Login_cancelarCambio => route' = "login" /\ ~authGuard(sessionStorage')
       ]_vars

\* C37: what the component does.  The successful login with the default password
\* stores the token and the user before it opens the modal, and starts no navigation
\* by role; while the modal is shown the token is stored; cancelarCambio closes the
\* modal, leaves the login shown and leaves the session in storage; and a navigation
\* by role starts only with the success of a login or of changePassword.
C37_TokenStoredBeforeChange ==
  /\ [](route = "login" /\ screen.showChangePassModal => authGuard(sessionStorage))
  /\ [][ /\ DefaultLoginSucceeds => timers' = timers /\ authGuard(sessionStorage')
         /\ DefaultLoginShown => screen'.showChangePassModal
         /\ Login_cancelarCambio
              => /\ route' = "login" /\ ~screen'.showChangePassModal
                 /\ sessionStorage' = sessionStorage /\ authGuard(sessionStorage')
         /\ (\E role \in {"user", "admin"} : CopiesIn(role, timers') > CopiesIn(role, timers))
              => (LoginSucceeds /\ ~DefaultLoginSucceeds) \/ ChangeSucceeds
       ]_vars

\* C37: the login shows the change modal after the login of a user with the default
\* password, and no changePassword request has been sent
C37_Witness ==
  /\ route = "login" /\ screen.showChangePassModal /\ screen.lastUser = "user"
  /\ sessionStorage = [token |-> TRUE, role |-> "user"]
  /\ net = EmptyBag /\ timers = EmptyBag

\* the entries of a sequence
Entries(q) == {q[i] : i \in 1..Len(q)}

\* C38: pagination of the search view.  In every state of the view the current page
\* is at least 1 and at most totalPages, where totalPages is the greater of 1 and the
\* number of rows divided by 10 and rounded up, and pageItems begins with 1, ends with
\* totalPages and contains the current page.
C38_PageInRange ==
  /\ totalPages(screen) = maxOf(1, ceilDiv(screen.rows, 10))
  /\ 1 <= screen.currentPage /\ screen.currentPage <= totalPages(screen)
  /\ Head(pageItems(screen)) = 1
  /\ pageItems(screen)[Len(pageItems(screen))] = totalPages(screen)
  /\ screen.currentPage \in Entries(pageItems(screen))

\* C38: page 6 of the 12 pages of 120 rows is shown, with an ellipsis on either side
C38_Witness ==
  /\ route = "stage" /\ screen.rows = 120 /\ screen.currentPage = 6
  /\ totalPages(screen) = 12
  /\ pageItems(screen) = <<1, 0, 4, 5, 6, 7, 8, 0, 12>>

\* the sections with the done flag of item ti of section si negated
FlipAt(secs, si, ti) == [secs EXCEPT ![si].tasks[ti].done = ~@]

\* the tasks of Chasis with the done flag of item i negated
FlipTask(ts, i) == [ts EXCEPT ![i].done = ~@]

\* the step changes no variable but the component of the screen shown
OnlyTheForm == UNCHANGED <<screen, net, timers, sessionStorage, localStorage, route>>

\* C39: toggleTask(sectionIndex, taskIndex), and toggleTask(i) of Chasis, negates the
\* done flag of the addressed item and changes nothing else: the other items, the
\* sections and their labels, the auxiliary fields, the identifier and its state, the
\* buffered snapshot and the active pending id stay as they are, and so do storage,
\* the requests in flight and the route; negating the same item of the resulting
\* checklist gives the previous checklist.
C39_ToggleFlipsOne ==
  [][ \A si, ti \in 1..3 :
        /\ Pintura_toggleTask(si, ti)
             => /\ pintura' = [pintura EXCEPT !.sections = FlipAt(pintura.sections, si, ti)]
                /\ pintura'.sections[si].tasks[ti].done # pintura.sections[si].tasks[ti].done
                /\ FlipAt(pintura'.sections, si, ti) = pintura.sections
                /\ OnlyTheForm /\ UNCHANGED <<premontaje, chasis, montaje>>
        /\ Premontaje_toggleTask(si, ti)
             => /\ premontaje' = [premontaje EXCEPT
                                    !.sections = FlipAt(premontaje.sections, si, ti)]
                /\ premontaje'.sections[si].tasks[ti].done
                     # premontaje.sections[si].tasks[ti].done
                /\ FlipAt(premontaje'.sections, si, ti) = premontaje.sections
                /\ OnlyTheForm /\ UNCHANGED <<pintura, chasis, montaje>>
        /\ Montaje_toggleTask(si, ti)
             => /\ montaje' = [montaje EXCEPT !.sections = FlipAt(montaje.sections, si, ti)]
                /\ montaje'.sections[si].tasks[ti].done # montaje.sections[si].tasks[ti].done
                /\ FlipAt(montaje'.sections, si, ti) = montaje.sections
                /\ OnlyTheForm /\ UNCHANGED <<pintura, premontaje, chasis>>
        /\ Chasis_toggleTask(ti)
             => /\ chasis' = [chasis EXCEPT !.tasks = FlipTask(chasis.tasks, ti)]
                /\ chasis'.tasks[ti].done # chasis.tasks[ti].done
                /\ FlipTask(chasis'.tasks, ti) = chasis.tasks
                /\ OnlyTheForm /\ UNCHANGED <<pintura, premontaje, montaje>>
    ]_vars

\* C39: Premontaje with no pending record: one item was checked by hand, the others
\* are unchecked, and nothing is in flight
C39_Witness ==
  /\ screen = "premontaje" /\ route = "stage"
  /\ premontaje.pendingId = 0 /\ ~premontaje.showLeaveModal
  /\ Cardinality({k \in 1..Len(allTasks(premontaje.sections)) :
                    allTasks(premontaje.sections)[k].done}) = 1
  /\ Len(allTasks(premontaje.sections)) > 1
  /\ net = EmptyBag

====
